---- MODULE Spec2Model ----
(***************************************************************************)
(* A model of the slotted-pig categorization engine                        *)
(* (slotted-pig-lib): TransactionMatcher::matches, Categorizer::categorize *)
(* with Category::categorize, the two sort operations of CategorizedList,  *)
(* and the CSV transaction parser (TransactionParser,                      *)
(* TransactionParserCsv, ColumnDeterminer).                                *)
(*                                                                         *)
(* Representation.  BigDecimal amounts are exact, so they are integers     *)
(* (minor units).  DateTime<Utc> is an integer timestamp.  Strings that    *)
(* are compared or searched (category names, descriptions, regex           *)
(* patterns) are tuples of byte values; account names are only compared    *)
(* for equality and are TLA+ strings.  Option<T> is None or Some(v).       *)
(***************************************************************************)
EXTENDS Integers, Sequences, FiniteSets, TLC

VARIABLES
    transaction_filters,  \* Categorizer.transaction_filters : Option<Vec<TransactionMatcher>>
    categories,           \* Categorizer.categories : Vec<Category>
    transactions,         \* the slice handed to Categorizer::categorize
    categorized,          \* the CategorizedList the caller holds (and sorts in place)
    uncategorized,        \* the second component returned by categorize
    pc,                   \* "loaded" | "categorized" | "sorted"
    matcher,              \* the TransactionMatcher of a matches() call
    transaction,          \* the Transaction of a matches() call
    matched,              \* Option<bool>: the value the last matches() call returned
    csv,                  \* TransactionParser.csv : Vec<TransactionParserCsv>
    files,                \* the file system: what File::open finds at each path
    paths,                \* the paths handed to TransactionParser::parse_csvs
    parsed,               \* Option: the last parser call (op, path, config), its
                          \* result, the paths it opened, the records it read
    matcher_rules,        \* categorizer.rs Categorizer.matchers : Vec<TransactionMatcher>
    hierarchy,            \* categorizer.rs Categorizer.hierarchy : Vec<Category>
    validated,            \* Option<Result>: what validate_categories returned
    categorized_hierarchy \* Option: the CategorizedHierarchy of categorizer.rs

vars == <<transaction_filters, categories, transactions, categorized,
          uncategorized, pc, matcher, transaction, matched,
          csv, files, paths, parsed,
          matcher_rules, hierarchy, validated, categorized_hierarchy>>

\* the state of the categorizer and of the matcher calls
categorizerVars == <<transaction_filters, categories, transactions,
                     categorized, uncategorized, pc, matcher, transaction,
                     matched>>

\* the state of the transaction parser
parserVars == <<csv, files, paths, parsed>>

\* the state of the matcher-list categorizer of categorizer.rs
legacyVars == <<matcher_rules, hierarchy, validated, categorized_hierarchy>>

----------------------------------------------------------------------------
(* Bounds *)

\* amounts of the matcher specification range over -MaxAmount..MaxAmount
MaxAmount == 1
\* timestamps of the matcher specification range over 0..MaxTime
MaxTime == 2
\* longest transaction list handed to categorize
MaxTxns == 2
\* largest number of Category nodes in the configured forest
MaxNodes == 3

----------------------------------------------------------------------------
(* Option<T> *)

None == [some |-> FALSE]
Some(v) == [some |-> TRUE, v |-> v]

Abs(x) == IF x < 0 THEN -x ELSE x

\* no parser configured, no file, no parser call made
ParserIdle ==
    /\ csv = <<>>
    /\ files = <<>>
    /\ paths = <<>>
    /\ parsed = None

\* no matcher-list categorizer loaded
LegacyIdle ==
    /\ matcher_rules = <<>>
    /\ hierarchy = <<>>
    /\ validated = None
    /\ categorized_hierarchy = None

----------------------------------------------------------------------------
(* Strings as byte tuples *)

sStore1 == <<115, 116, 49>>      \* "st1"
sStore2 == <<115, 116, 50>>      \* "st2"
sPay    == <<112, 97, 121>>      \* "pay"
rStore  == <<115, 116, 46>>      \* the regex  st.
rPay    == <<112, 97, 121>>      \* the regex  pay

\* Regex::is_match for patterns made of literal bytes and '.' (byte 46):
\* an unanchored search, the pattern may match at any offset of the text.
IsMatch(r, text) ==
    \E i \in 0..(Len(text) - Len(r)) :
        \A j \in 1..Len(r) : r[j] = 46 \/ r[j] = text[i + j]

----------------------------------------------------------------------------
(* TransactionMatcher::matches *)

MatchesStrictBounds(m, t) ==
    LET min == IF m.min.some THEN m.min.v < t.amount ELSE TRUE
        max == IF m.max.some THEN m.max.v > t.amount ELSE TRUE
        account == IF m.account.some THEN m.account.v = t.account ELSE TRUE
        description == m.description = <<>>
                       \/ \E k \in 1..Len(m.description) :
                              IsMatch(m.description[k], t.description)
        begin == IF m.begin.some THEN m.begin.v >= t.time ELSE TRUE
        end == IF m.end.some THEN m.end.v <= t.time ELSE TRUE
    IN  min /\ max /\ account /\ description /\ begin /\ end

MatchesAllPatterns(m, t) ==
    LET min == IF m.min.some THEN m.min.v <= t.amount ELSE TRUE
        max == IF m.max.some THEN m.max.v >= t.amount ELSE TRUE
        account == IF m.account.some THEN m.account.v = t.account ELSE TRUE
        description == \A k \in 1..Len(m.description) :
                           IsMatch(m.description[k], t.description)
        begin == IF m.begin.some THEN m.begin.v >= t.time ELSE TRUE
        end == IF m.end.some THEN m.end.v <= t.time ELSE TRUE
    IN  min /\ max /\ account /\ description /\ begin /\ end

MatchesIgnoringAccount(m, t) ==
    LET min == IF m.min.some THEN m.min.v <= t.amount ELSE TRUE
        max == IF m.max.some THEN m.max.v >= t.amount ELSE TRUE
        description == m.description = <<>>
                       \/ \E k \in 1..Len(m.description) :
                              IsMatch(m.description[k], t.description)
        begin == IF m.begin.some THEN m.begin.v >= t.time ELSE TRUE
        end == IF m.end.some THEN m.end.v <= t.time ELSE TRUE
    IN  min /\ max /\ description /\ begin /\ end

\* TransactionMatcher::matches, comparison by comparison as the source has it:
\* each Option is mapped over its comparison and defaults to true.
Matches(m, t) ==
    LET min == IF m.min.some THEN m.min.v <= t.amount ELSE TRUE
        max == IF m.max.some THEN m.max.v >= t.amount ELSE TRUE
        account == IF m.account.some THEN m.account.v = t.account ELSE TRUE
        description == m.description = <<>>
                       \/ \E k \in 1..Len(m.description) :
                              IsMatch(m.description[k], t.description)
        begin == IF m.begin.some THEN m.begin.v >= t.time ELSE TRUE
        end == IF m.end.some THEN m.end.v <= t.time ELSE TRUE
    IN  min /\ max /\ account /\ description /\ begin /\ end

\* A matcher with no constraint: every Option absent, no description pattern
NoConstraint ==
    [min |-> None, max |-> None, account |-> None, description |-> <<>>,
     begin |-> None, end |-> None]

----------------------------------------------------------------------------
(* Inputs of the matcher specification *)

Amounts == (0 - MaxAmount)..MaxAmount
Times == 0..MaxTime
OptionOf(S) == {None} \cup {Some(v) : v \in S}

MatcherInputs ==
    [min : OptionOf(Amounts), max : OptionOf(Amounts),
     account : OptionOf({"checking"}),
     description : {<<>>, <<rStore>>, <<rStore, rPay>>},
     begin : OptionOf(Times), end : OptionOf(Times)]

TransactionInputs ==
    [amount : Amounts, account : {"checking", "credit card"},
     description : {sStore1, sPay}, time : Times]

----------------------------------------------------------------------------
(* Category, CategoryChildren, Categorized, CategorizedChildren *)

\* CategoryChildren::TransactionMatchers(Vec<TransactionMatcher>)
TransactionMatchers(list) == [kind |-> "transaction_matchers", list |-> list]
\* CategoryChildren::Subcategories / CategorizedChildren::Subcategories
Subcategories(list) == [kind |-> "subcategories", list |-> list]
\* CategorizedChildren::Transactions(Vec<Transaction>)
Transactions(list) == [kind |-> "transactions", list |-> list]

Category(name, children) == [category |-> name, children |-> children]

----------------------------------------------------------------------------
(* Category::categorize *)

\* The accumulators of one Category::categorize call (count, total,
\* absolute_total), the children collected so far, and the set `categorized`
\* of claimed positions that is threaded through the whole walk.
Acc(count, total, absolute_total, list, claimed) ==
    [count |-> count, total |-> total, absolute_total |-> absolute_total,
     list |-> list, categorized |-> claimed]

RECURSIVE LeafScanSignedAbsolute(_, _, _, _)
LeafScanSignedAbsolute(matchers, txns, i, acc) ==
    IF i > Len(txns) THEN acc
    ELSE LET t == txns[i] IN
         IF i \notin acc.categorized
            /\ \E k \in 1..Len(matchers) : Matches(matchers[k], t)
         THEN LeafScanSignedAbsolute(matchers, txns, i + 1,
                  Acc(acc.count + 1, acc.total + t.amount,
                      acc.absolute_total + t.amount,
                      Append(acc.list, t), acc.categorized \cup {i}))
         ELSE LeafScanSignedAbsolute(matchers, txns, i + 1, acc)

RECURSIVE LeafScanIgnoringClaimed(_, _, _, _)
LeafScanIgnoringClaimed(matchers, txns, i, acc) ==
    IF i > Len(txns) THEN acc
    ELSE LET t == txns[i] IN
         IF \E k \in 1..Len(matchers) : Matches(matchers[k], t)
         THEN LeafScanIgnoringClaimed(matchers, txns, i + 1,
                  Acc(acc.count + 1, acc.total + t.amount,
                      acc.absolute_total + Abs(t.amount),
                      Append(acc.list, t), acc.categorized \cup {i}))
         ELSE LeafScanIgnoringClaimed(matchers, txns, i + 1, acc)

\* a leaf scan that tracks the claimed transactions by value: a transaction
\* equal to one at a claimed position is passed over
RECURSIVE LeafScanClaimingByValue(_, _, _, _)
LeafScanClaimingByValue(matchers, txns, i, acc) ==
    IF i > Len(txns) THEN acc
    ELSE LET t == txns[i] IN
         IF (\A j \in acc.categorized : txns[j] # t)
            /\ \E k \in 1..Len(matchers) : Matches(matchers[k], t)
         THEN LeafScanClaimingByValue(matchers, txns, i + 1,
                  Acc(acc.count + 1, acc.total + t.amount,
                      acc.absolute_total + Abs(t.amount),
                      Append(acc.list, t), acc.categorized \cup {i}))
         ELSE LeafScanClaimingByValue(matchers, txns, i + 1, acc)

\* a leaf scan in which an empty matcher list matches every transaction
RECURSIVE LeafScanEmptyMatchesAll(_, _, _, _)
LeafScanEmptyMatchesAll(matchers, txns, i, acc) ==
    IF i > Len(txns) THEN acc
    ELSE LET t == txns[i] IN
         IF i \notin acc.categorized
            /\ (\/ matchers = <<>>
                \/ \E k \in 1..Len(matchers) : Matches(matchers[k], t))
         THEN LeafScanEmptyMatchesAll(matchers, txns, i + 1,
                  Acc(acc.count + 1, acc.total + t.amount,
                      acc.absolute_total + Abs(t.amount),
                      Append(acc.list, t), acc.categorized \cup {i}))
         ELSE LeafScanEmptyMatchesAll(matchers, txns, i + 1, acc)

\* The TransactionMatchers arm: enumerate the transactions in order; position
\* i is claimed when it is not yet in `categorized` and any matcher matches.
RECURSIVE LeafScan(_, _, _, _)
LeafScan(matchers, txns, i, acc) ==
    IF i > Len(txns) THEN acc
    ELSE LET t == txns[i] IN
         IF i \notin acc.categorized
            /\ \E k \in 1..Len(matchers) : Matches(matchers[k], t)
         THEN LeafScan(matchers, txns, i + 1,
                  Acc(acc.count + 1, acc.total + t.amount,
                      acc.absolute_total + Abs(t.amount),
                      Append(acc.list, t), acc.categorized \cup {i}))
         ELSE LeafScan(matchers, txns, i + 1, acc)

RECURSIVE CategoryCategorize(_, _, _)

RECURSIVE SubScanLastChildOnly(_, _, _, _)
SubScanLastChildOnly(subcategories, txns, k, acc) ==
    IF k > Len(subcategories) THEN acc
    ELSE LET r == CategoryCategorize(subcategories[k], txns, acc.categorized)
             c == r.node
         IN  SubScanLastChildOnly(subcategories, txns, k + 1,
                 Acc(c.count, c.total, c.absolute_total,
                     Append(acc.list, c), r.categorized))

\* a subcategory scan that collects the children in reverse order
RECURSIVE SubScanPrepending(_, _, _, _)
SubScanPrepending(subcategories, txns, k, acc) ==
    IF k > Len(subcategories) THEN acc
    ELSE LET r == CategoryCategorize(subcategories[k], txns, acc.categorized)
             c == r.node
         IN  SubScanPrepending(subcategories, txns, k + 1,
                 Acc(acc.count + c.count, acc.total + c.total,
                     acc.absolute_total + c.absolute_total,
                     <<c>> \o acc.list, r.categorized))

\* The Subcategories arm: categorize each subcategory in listed order, each
\* call seeing the positions claimed by the calls before it, and add its
\* count, total and absolute_total to this category's.
RECURSIVE SubScan(_, _, _, _)
SubScan(subcategories, txns, k, acc) ==
    IF k > Len(subcategories) THEN acc
    ELSE LET r == CategoryCategorize(subcategories[k], txns, acc.categorized)
             c == r.node
         IN  SubScan(subcategories, txns, k + 1,
                 Acc(acc.count + c.count, acc.total + c.total,
                     acc.absolute_total + c.absolute_total,
                     Append(acc.list, c), r.categorized))

\* Category::categorize(&self, transactions, categorized) -> Categorized,
\* returned with the updated `categorized` set (a &mut parameter in the source)
CategoryCategorize(cat, txns, claimed) ==
    LET start == Acc(0, 0, 0, <<>>, claimed)
        acc == IF cat.children.kind = "transaction_matchers"
               THEN LeafScan(cat.children.list, txns, 1, start)
               ELSE SubScan(cat.children.list, txns, 1, start)
        children == IF cat.children.kind = "transaction_matchers"
                    THEN Transactions(acc.list)
                    ELSE Subcategories(acc.list)
    IN  [node |-> [category |-> cat.category, count |-> acc.count,
                   total |-> acc.total,
                   absolute_total |-> acc.absolute_total,
                   children |-> children],
         categorized |-> acc.categorized]

----------------------------------------------------------------------------
(* Categorizer::categorize *)

PassesEveryFilter(filters, t) ==
    IF filters.some
    THEN \A k \in 1..Len(filters.v) : Matches(filters.v[k], t)
    ELSE TRUE

\* the closure of the pre-filter: map_or(true, |filters| filters.iter().any(..))
PassesFilters(filters, t) ==
    IF filters.some
    THEN \E k \in 1..Len(filters.v) : Matches(filters.v[k], t)
    ELSE TRUE

\* a pre-filter that lets every transaction through
FilterTransactionsKeepingAll(filters, txns) == txns

\* transactions.iter().filter(..).collect()
FilterTransactions(filters, txns) ==
    SelectSeq(txns, LAMBDA t : PassesFilters(filters, t))

\* a top-level walk in which every category starts from an empty claimed set
RECURSIVE CategorizeAllFreshClaims(_, _, _, _)
CategorizeAllFreshClaims(cats, txns, k, acc) ==
    IF k > Len(cats) THEN acc
    ELSE LET r == CategoryCategorize(cats[k], txns, {})
         IN  CategorizeAllFreshClaims(cats, txns, k + 1,
                 [list |-> Append(acc.list, r.node),
                  categorized |-> acc.categorized \cup r.categorized])

\* self.categories.iter().map(|category| category.categorize(..)).collect()
RECURSIVE CategorizeAll(_, _, _, _)
CategorizeAll(cats, txns, k, acc) ==
    IF k > Len(cats) THEN acc
    ELSE LET r == CategoryCategorize(cats[k], txns, acc.categorized)
         IN  CategorizeAll(cats, txns, k + 1,
                 [list |-> Append(acc.list, r.node),
                  categorized |-> r.categorized])

RECURSIVE UnclaimedNegationDropped(_, _, _)
UnclaimedNegationDropped(txns, claimed, i) ==
    IF i > Len(txns) THEN <<>>
    ELSE IF i \in claimed
         THEN <<txns[i]>> \o UnclaimedNegationDropped(txns, claimed, i + 1)
         ELSE UnclaimedNegationDropped(txns, claimed, i + 1)

\* transactions.iter().enumerate().filter(|(i, _)| !categorized.contains(i))
RECURSIVE Unclaimed(_, _, _)
Unclaimed(txns, claimed, i) ==
    IF i > Len(txns) THEN <<>>
    ELSE IF i \notin claimed
         THEN <<txns[i]>> \o Unclaimed(txns, claimed, i + 1)
         ELSE Unclaimed(txns, claimed, i + 1)

\* Categorizer::categorize(&self, transactions) -> (CategorizedList, Vec<&Transaction>)
CategorizerCategorize(filters, cats, input) ==
    LET txns == FilterTransactions(filters, input)
        walk == CategorizeAll(cats, txns, 1, [list |-> <<>>, categorized |-> {}])
    IN  [categorized |-> walk.list,
         uncategorized |-> Unclaimed(txns, walk.categorized, 1)]

----------------------------------------------------------------------------
(* Orderings: Ord::cmp of BigDecimal, DateTime, u64 and String *)

Cmp(a, b) == IF a < b THEN "Less" ELSE IF a > b THEN "Greater" ELSE "Equal"

\* String::cmp: lexicographic by byte, a proper prefix is Less
RECURSIVE StrCmp(_, _)
StrCmp(a, b) ==
    IF a = <<>> /\ b = <<>> THEN "Equal"
    ELSE IF a = <<>> THEN "Less"
    ELSE IF b = <<>> THEN "Greater"
    ELSE IF Head(a) # Head(b) THEN Cmp(Head(a), Head(b))
    ELSE StrCmp(Tail(a), Tail(b))

CategorySorts ==
    {"total_descending", "total_ascending", "absolute_total_descending",
     "absolute_total_ascending", "name_descending", "name_ascending"}

TransactionSorts ==
    {"time_descending", "time_ascending", "amount_descending",
     "amount_ascending", "absolute_amount_descending",
     "absolute_amount_ascending"}

\* the comparison closure each CategorySort hands to sort_by
CategoryOrdering(sort, c1, c2) ==
    CASE sort = "total_descending" -> Cmp(c2.total, c1.total)
      [] sort = "total_ascending" -> Cmp(c1.total, c2.total)
      [] sort = "absolute_total_descending" ->
             Cmp(c2.absolute_total, c1.absolute_total)
      [] sort = "absolute_total_ascending" ->
             Cmp(c1.absolute_total, c2.absolute_total)
      [] sort = "name_descending" -> StrCmp(c2.category, c1.category)
      [] sort = "name_ascending" -> StrCmp(c1.category, c2.category)

\* the transaction comparisons with the absolute value left out
TransactionOrderingSignedAbsolute(sort, t1, t2) ==
    CASE sort = "time_descending" -> Cmp(t2.time, t1.time)
      [] sort = "time_ascending" -> Cmp(t1.time, t2.time)
      [] sort = "amount_descending" -> Cmp(t2.amount, t1.amount)
      [] sort = "amount_ascending" -> Cmp(t1.amount, t2.amount)
      [] sort = "absolute_amount_descending" -> Cmp(t2.amount, t1.amount)
      [] sort = "absolute_amount_ascending" -> Cmp(t1.amount, t2.amount)

\* the comparison each TransactionSort hands to sort_by / sort_by_key
TransactionOrdering(sort, t1, t2) ==
    CASE sort = "time_descending" -> Cmp(t2.time, t1.time)
      [] sort = "time_ascending" -> Cmp(t1.time, t2.time)
      [] sort = "amount_descending" -> Cmp(t2.amount, t1.amount)
      [] sort = "amount_ascending" -> Cmp(t1.amount, t2.amount)
      [] sort = "absolute_amount_descending" ->
             Cmp(Abs(t2.amount), Abs(t1.amount))
      [] sort = "absolute_amount_ascending" ->
             Cmp(Abs(t1.amount), Abs(t2.amount))

----------------------------------------------------------------------------
(* slice::sort_by is a stable sort: its result is the one permutation that  *)
(* is ordered and keeps equal elements in their input order.  It is         *)
(* computed here by insertion, left to right, each element placed before    *)
(* the first element it is Less than.                                       *)

\* an insertion that places an element before the elements it equals
RECURSIVE InsertCategorizedBeforeEqual(_, _, _)
InsertCategorizedBeforeEqual(sort, sorted, x) ==
    IF sorted = <<>> THEN <<x>>
    ELSE IF CategoryOrdering(sort, x, Head(sorted)) # "Greater"
         THEN <<x>> \o sorted
         ELSE <<Head(sorted)>>
                  \o InsertCategorizedBeforeEqual(sort, Tail(sorted), x)

RECURSIVE InsertCategorized(_, _, _)
InsertCategorized(sort, sorted, x) ==
    IF sorted = <<>> THEN <<x>>
    ELSE IF CategoryOrdering(sort, x, Head(sorted)) = "Less"
         THEN <<x>> \o sorted
         ELSE <<Head(sorted)>> \o InsertCategorized(sort, Tail(sorted), x)

RECURSIVE SortCategorizedBy(_, _, _)
SortCategorizedBy(sort, list, done) ==
    IF list = <<>> THEN done
    ELSE SortCategorizedBy(sort, Tail(list),
                           InsertCategorized(sort, done, Head(list)))

RECURSIVE InsertTransactionDroppingEqual(_, _, _)
InsertTransactionDroppingEqual(sort, sorted, x) ==
    IF sorted = <<>> THEN <<x>>
    ELSE IF TransactionOrdering(sort, x, Head(sorted)) = "Less"
         THEN <<x>> \o sorted
         ELSE IF TransactionOrdering(sort, x, Head(sorted)) = "Equal"
              THEN sorted
              ELSE <<Head(sorted)>>
                       \o InsertTransactionDroppingEqual(sort, Tail(sorted), x)

RECURSIVE InsertTransaction(_, _, _)
InsertTransaction(sort, sorted, x) ==
    IF sorted = <<>> THEN <<x>>
    ELSE IF TransactionOrdering(sort, x, Head(sorted)) = "Less"
         THEN <<x>> \o sorted
         ELSE <<Head(sorted)>> \o InsertTransaction(sort, Tail(sorted), x)

RECURSIVE SortTransactionsBy(_, _, _)
SortTransactionsBy(sort, list, done) ==
    IF list = <<>> THEN done
    ELSE SortTransactionsBy(sort, Tail(list),
                            InsertTransaction(sort, done, Head(list)))

----------------------------------------------------------------------------
(* Categorized::sort_categorized, sort_subcategories, sort_transactions *)

RECURSIVE SortCategorized(_, _)

\* a sort_subcategories that leaves the children of every node as they are
SortSubcategoriesOfTopLevelOnly(c, sort) == c

\* Categorized::sort_subcategories: a node holding Transactions is left alone
SortSubcategoriesOf(c, sort) ==
    IF c.children.kind = "subcategories"
    THEN [c EXCEPT !.children.list = SortCategorized(@, sort)]
    ELSE c

\* Categorized::sort_categorized: sort the siblings, then each one's children
SortCategorized(list, sort) ==
    LET sorted == SortCategorizedBy(sort, list, <<>>)
    IN  [k \in 1..Len(sorted) |-> SortSubcategoriesOf(sorted[k], sort)]

\* Categorized::sort_transactions
RECURSIVE SortTransactionsOf(_, _)
SortTransactionsOf(c, sort) ==
    IF c.children.kind = "transactions"
    THEN [c EXCEPT !.children.list = SortTransactionsBy(sort, @, <<>>)]
    ELSE [c EXCEPT !.children.list =
              [k \in 1..Len(@) |-> SortTransactionsOf(@[k], sort)]]

\* CategorizedList::sort_transactions: every top-level category in turn
SortTransactionsList(list, sort) ==
    [k \in 1..Len(list) |-> SortTransactionsOf(list[k], sort)]

----------------------------------------------------------------------------
(* Inputs of the categorizer specification *)

nA  == <<97>>          \* "a"
nAB == <<97, 98>>      \* "ab"
nB  == <<98>>          \* "b"

OnlyDescription(patterns) == [NoConstraint EXCEPT !.description = patterns]
mPay    == OnlyDescription(<<rPay>>)
mMin0   == [NoConstraint EXCEPT !.min = Some(0)]
mCredit == [NoConstraint EXCEPT !.account = Some("credit card"),
                                !.max = Some(0 - 1)]

\* the two transactions of the repository's test scenario, and a third that
\* shares its time and absolute amount with the first
tStore1 == [amount |-> 0 - 10, account |-> "credit card",
            description |-> sStore1, time |-> 1]
tPay    == [amount |-> 5, account |-> "checking",
            description |-> sPay, time |-> 2]
tStore2 == [amount |-> 10, account |-> "checking",
            description |-> sStore2, time |-> 1]

TransactionUniverse == {tStore1, tPay, tStore2}

RECURSIVE SeqsOfLen(_, _)
SeqsOfLen(S, n) ==
    IF n = 0 THEN {<<>>}
    ELSE {Append(q, x) : q \in SeqsOfLen(S, n - 1), x \in S}

SeqsUpTo(S, n) == UNION {SeqsOfLen(S, k) : k \in 0..n}

\* Leaf categories: one matcher (matching tPay and tStore2), two matchers
\* (matching tStore1 and tPay), no matcher
LeafMin0   == Category(nB, TransactionMatchers(<<mMin0>>))
LeafCredit == Category(nA, TransactionMatchers(<<mCredit, mPay>>))
LeafNone   == Category(nAB, TransactionMatchers(<<>>))

InternalNames == {nAB}

\* every tree / forest of exactly n Category nodes over the given leaves
RECURSIVE TreesOfSize(_, _)
RECURSIVE ForestsOfSize(_, _)
TreesOfSize(leaves, n) ==
    IF n = 1 THEN leaves
    ELSE {Category(name, Subcategories(f)) :
              name \in InternalNames, f \in ForestsOfSize(leaves, n - 1)}

ForestsOfSize(leaves, n) ==
    IF n = 0 THEN {<<>>}
    ELSE UNION {{<<t>> \o f : t \in TreesOfSize(leaves, k),
                              f \in ForestsOfSize(leaves, n - k)} :
                    k \in 1..n}

CategoryForests(leaves) ==
    UNION {ForestsOfSize(leaves, n) : n \in 0..MaxNodes}

\* no pre-filter, or one that lets tStore1 and tPay through (each by one of
\* its two matchers) and not tStore2
FilterInputs == {None, Some(<<mCredit, mPay>>)}

TransactionLists == SeqsUpTo(TransactionUniverse, MaxTxns)

----------------------------------------------------------------------------
(* The specification Spec: a loaded Categorizer (without pre-filter) and a  *)
(* transaction list; categorize may be called (again) at any time, and the  *)
(* result held by the caller may be sorted in place any number of times,    *)
(* in any order and with any sort kinds.                                    *)

Init ==
    /\ transaction_filters = None
    /\ categories \in CategoryForests({LeafMin0, LeafCredit})
    /\ transactions \in TransactionLists
    /\ categorized = <<>>
    /\ uncategorized = <<>>
    /\ pc = "loaded"
    /\ matcher = NoConstraint
    /\ transaction = tPay
    /\ matched = None
    /\ ParserIdle
    /\ LegacyIdle

\* a categorize that hands back the forest of an earlier call when one exists
CategorizeKeepingHeldResult ==
    /\ LET r == CategorizerCategorize(transaction_filters, categories,
                                      transactions)
       IN  /\ categorized' = IF pc = "loaded" THEN r.categorized
                                              ELSE categorized
           /\ uncategorized' = r.uncategorized
    /\ pc' = "categorized"
    /\ UNCHANGED <<transaction_filters, categories, transactions,
                   matcher, transaction, matched, parserVars, legacyVars>>

\* let (mut categorized, uncategorized) = categorizer.categorize(&transactions)
Categorize ==
    /\ LET r == CategorizerCategorize(transaction_filters, categories,
                                      transactions)
       IN  /\ categorized' = r.categorized
           /\ uncategorized' = r.uncategorized
    /\ pc' = "categorized"
    /\ UNCHANGED <<transaction_filters, categories, transactions,
                   matcher, transaction, matched, parserVars, legacyVars>>

\* CategorizedList::sort_subcategories(&mut self, sort)
SortSubcategories ==
    /\ pc # "loaded"
    /\ \E sort \in CategorySorts :
           categorized' = SortCategorized(categorized, sort)
    /\ pc' = "sorted"
    /\ UNCHANGED <<transaction_filters, categories, transactions,
                   uncategorized, matcher, transaction, matched, parserVars, legacyVars>>

\* CategorizedList::sort_transactions(&mut self, sort)
SortTransactions ==
    /\ pc # "loaded"
    /\ \E sort \in TransactionSorts :
           categorized' = SortTransactionsList(categorized, sort)
    /\ pc' = "sorted"
    /\ UNCHANGED <<transaction_filters, categories, transactions,
                   uncategorized, matcher, transaction, matched, parserVars, legacyVars>>

Next == Categorize \/ SortSubcategories \/ SortTransactions

Spec == Init /\ [][Next]_vars

----------------------------------------------------------------------------
(* The specification SpecCategorize: calls of Categorizer::categorize over  *)
(* the wider set of configurations, with and without pre-filter.            *)

InitCategorize ==
    /\ transaction_filters \in FilterInputs
    /\ categories \in CategoryForests({LeafMin0, LeafCredit, LeafNone})
    /\ transactions \in TransactionLists
    /\ categorized = <<>>
    /\ uncategorized = <<>>
    /\ pc = "loaded"
    /\ matcher = NoConstraint
    /\ transaction = tPay
    /\ matched = None
    /\ ParserIdle
    /\ LegacyIdle

NextCategorize == Categorize

SpecCategorize == InitCategorize /\ [][NextCategorize]_vars

----------------------------------------------------------------------------
(* The matcher specification: one matcher, one transaction, and calls of    *)
(* TransactionMatcher::matches on them.                                     *)

InitMatcher ==
    /\ matcher \in MatcherInputs
    /\ transaction \in TransactionInputs
    /\ matched = None
    /\ transaction_filters = None
    /\ categories = <<>>
    /\ transactions = <<>>
    /\ categorized = <<>>
    /\ uncategorized = <<>>
    /\ pc = "loaded"
    /\ ParserIdle
    /\ LegacyIdle

\* matcher.matches(&transaction)
MatchesCall ==
    /\ matched' = Some(Matches(matcher, transaction))
    /\ UNCHANGED <<matcher, transaction, transaction_filters, categories,
                   transactions, categorized, uncategorized, pc, parserVars, legacyVars>>

NextMatcher == MatchesCall

SpecMatcher == InitMatcher /\ [][NextMatcher]_vars

----------------------------------------------------------------------------
(* Claims about TransactionMatcher::matches (checked under SpecMatcher).    *)
(* The constraint checks below are written from the documented meaning of   *)
(* each field, not from Matches.                                            *)

MinHolds(m, t) == m.min.some => m.min.v <= t.amount
MaxHolds(m, t) == m.max.some => t.amount <= m.max.v
AccountHolds(m, t) == m.account.some => m.account.v = t.account
DescriptionHolds(m, t) ==
    Len(m.description) = 0
    \/ \E r \in {m.description[k] : k \in 1..Len(m.description)} :
           IsMatch(r, t.description)
\* begin is the time after which, end the time before which, the transaction
\* must have occurred (both inclusive)
BeginHolds(m, t) == m.begin.some => t.time >= m.begin.v
EndHolds(m, t) == m.end.some => t.time <= m.end.v

OnlyTimeWindow(m) == [NoConstraint EXCEPT !.begin = m.begin, !.end = m.end]
OnlyAmountBounds(m) == [NoConstraint EXCEPT !.min = m.min, !.max = m.max]
OnlyAccount(m) == [NoConstraint EXCEPT !.account = m.account]

\* C6: with no other constraint set, matches(t) is true iff the transaction
\* time lies in the inclusive window: t.time >= begin when begin is present
\* and t.time <= end when end is present.
C6_TimeWindowInclusive ==
    (matched.some /\ matcher = OnlyTimeWindow(matcher))
        => (matched.v <=> (BeginHolds(matcher, transaction)
                           /\ EndHolds(matcher, transaction)))

\* the state part of C7: what the last call returned
C7_Conjunction ==
    matched.some =>
        /\ matched.v <=>
               /\ MinHolds(matcher, transaction)
               /\ MaxHolds(matcher, transaction)
               /\ AccountHolds(matcher, transaction)
               /\ DescriptionHolds(matcher, transaction)
               /\ Matches([NoConstraint EXCEPT !.begin = matcher.begin],
                          transaction)
               /\ Matches([NoConstraint EXCEPT !.end = matcher.end],
                          transaction)
        /\ (matcher = NoConstraint => matched.v)
        /\ (matcher = OnlyAccount(matcher) /\ matcher.account.some
                => (matched.v <=> matcher.account.v = transaction.account))

C8_AmountBoundsInclusive ==
    matched.some =>
        /\ matched.v => (MinHolds(matcher, transaction)
                         /\ MaxHolds(matcher, transaction))
        /\ matcher = OnlyAmountBounds(matcher)
               => (matched.v <=> (MinHolds(matcher, transaction)
                                  /\ MaxHolds(matcher, transaction)))

\* C8 witness: the amount equals both bounds and the call returned true
C8_Witness ==
    /\ matched = Some(TRUE)
    /\ matcher.min = Some(transaction.amount)
    /\ matcher.max = Some(transaction.amount)

\* C9: the description constraint is true for every transaction when the
\* pattern list is empty, and otherwise true iff at least one pattern matches
\* the description: a match implies it, and with no other constraint set
\* matches(t) is true exactly when it holds.
C9_DescriptionAnyPattern ==
    matched.some =>
        /\ matched.v => DescriptionHolds(matcher, transaction)
        /\ matcher = OnlyDescription(matcher.description)
               => (matched.v <=> DescriptionHolds(matcher, transaction))

\* C9 witness: two patterns, only the first matches, the call returned true
C9_Witness ==
    /\ matched = Some(TRUE)
    /\ matcher.description = <<rStore, rPay>>
    /\ transaction.description = sStore1
    /\ ~IsMatch(rPay, transaction.description)

----------------------------------------------------------------------------
(* Vocabulary of the claims about Categorizer::categorize *)

RECURSIVE SeqSum(_)
SeqSum(q) == IF q = <<>> THEN 0 ELSE Head(q) + SeqSum(Tail(q))

Range(q) == {q[k] : k \in 1..Len(q)}
Occurrences(q, x) == Cardinality({k \in 1..Len(q) : q[k] = x})
BagOf(q) == [x \in Range(q) |-> Occurrences(q, x)]

RECURSIVE Flatten(_)
Flatten(qq) == IF qq = <<>> THEN <<>> ELSE Head(qq) \o Flatten(Tail(qq))

\* every node of a result forest, at any depth
RECURSIVE ResultNodes(_)
ResultNodes(list) ==
    UNION {{list[k]} \cup (IF list[k].children.kind = "subcategories"
                           THEN ResultNodes(list[k].children.list)
                           ELSE {}) : k \in 1..Len(list)}

\* the leaves of a forest (of Category or of Categorized) in depth-first order
RECURSIVE LeavesOf(_)
LeavesOf(list) ==
    Flatten([k \in 1..Len(list) |->
                 IF list[k].children.kind = "subcategories"
                 THEN LeavesOf(list[k].children.list)
                 ELSE <<list[k]>>])

\* the transactions that survive the pre-filter, in input order
Considered ==
    SelectSeq(transactions,
              LAMBDA t : transaction_filters.some =>
                  \E f \in Range(transaction_filters.v) : Matches(f, t))

LeafMatches(leaf, t) == \E m \in Range(leaf.children.list) : Matches(m, t)

\* the depth-first index of the first leaf category matching t, 0 when none
FirstLeaf(t) ==
    LET leaves == LeavesOf(categories)
        hits == {k \in 1..Len(leaves) : LeafMatches(leaves[k], t)}
    IN  IF hits = {} THEN 0 ELSE CHOOSE k \in hits : \A j \in hits : k <= j

\* all transactions held by the leaves of the result
HeldTransactions ==
    Flatten([k \in 1..Len(LeavesOf(categorized)) |->
                 LeavesOf(categorized)[k].children.list])

----------------------------------------------------------------------------
(* Claims about Categorizer::categorize (checked under SpecCategorize) *)

\* C1: in every result of categorize, every node whose children are
\* Subcategories has count, total and absolute_total equal to the sum of the
\* same field over its direct children, at every depth.
C1_InternalNodeSums ==
    pc = "categorized" =>
        \A c \in ResultNodes(categorized) :
            c.children.kind = "subcategories" =>
                LET sub == c.children.list IN
                /\ c.count = SeqSum([k \in 1..Len(sub) |-> sub[k].count])
                /\ c.total = SeqSum([k \in 1..Len(sub) |-> sub[k].total])
                /\ c.absolute_total =
                       SeqSum([k \in 1..Len(sub) |-> sub[k].absolute_total])

\* C1 witness: an internal node with two children that each hold a
\* transaction, one of a negative amount
C1_Witness ==
    /\ pc = "categorized"
    /\ \E c \in ResultNodes(categorized) :
           /\ c.children.kind = "subcategories"
           /\ Len(c.children.list) = 2
           /\ c.children.list[1].count = 1
           /\ c.children.list[2].count = 1
           /\ c.total # c.absolute_total

\* C2: every leaf of a result has count equal to the number of transactions
\* it holds, total equal to the signed sum of their amounts and
\* absolute_total equal to the sum of their absolute values (never negative).
C2_LeafAggregates ==
    pc = "categorized" =>
        \A c \in ResultNodes(categorized) :
            c.children.kind = "transactions" =>
                LET held == c.children.list IN
                /\ c.count = Len(held)
                /\ c.total = SeqSum([k \in 1..Len(held) |-> held[k].amount])
                /\ c.absolute_total =
                       SeqSum([k \in 1..Len(held) |-> Abs(held[k].amount)])
                /\ c.absolute_total >= 0

\* C2 witness: a leaf that claimed the one transaction of -10 and has
\* count 1, total -10, absolute_total 10
C2_Witness ==
    /\ pc = "categorized"
    /\ \E c \in ResultNodes(categorized) :
           /\ c.children = Transactions(<<tStore1>>)
           /\ c.count = 1 /\ c.total = 0 - 10 /\ c.absolute_total = 10

\* C3: first matching leaf wins.  In the result categorize returns, the
\* k-th leaf in depth-first order holds every considered occurrence of a
\* transaction whose first matching leaf category is the k-th, and no
\* occurrence of any other transaction; so an occurrence is held by one leaf
\* only, and never by a later leaf that also matches it.
C3_FirstMatchingLeafWins ==
    pc = "categorized" =>
        LET leaves == LeavesOf(categorized) IN
        /\ Len(leaves) = Len(LeavesOf(categories))
        /\ \A k \in 1..Len(leaves) : \A t \in TransactionUniverse :
               Occurrences(leaves[k].children.list, t) =
                   IF FirstLeaf(t) = k THEN Occurrences(Considered, t) ELSE 0

\* C3 witness: a considered transaction is matched by two leaf categories
C3_Witness ==
    /\ pc = "categorized"
    /\ \E t \in Range(Considered) :
           \E j, k \in 1..Len(LeavesOf(categories)) :
               /\ j < k
               /\ LeafMatches(LeavesOf(categories)[j], t)
               /\ LeafMatches(LeavesOf(categories)[k], t)
               /\ t \in Range(LeavesOf(categorized)[j].children.list)

\* C4: the uncategorized list holds exactly the considered occurrences of
\* the transactions that no leaf category matches, and no leaf holds such a
\* transaction; a transaction in the uncategorized list is held by no leaf.
C4_UncategorizedAreUnmatched ==
    pc = "categorized" =>
        /\ \A t \in TransactionUniverse :
               Occurrences(uncategorized, t) =
                   IF FirstLeaf(t) = 0 THEN Occurrences(Considered, t) ELSE 0
        /\ \A t \in Range(HeldTransactions) : FirstLeaf(t) # 0
        /\ Range(uncategorized) \cap Range(HeldTransactions) = {}

\* C4 witness: one transaction was claimed by a leaf and another is
\* uncategorized although leaf categories with matchers exist
C4_Witness ==
    /\ pc = "categorized"
    /\ uncategorized # <<>>
    /\ HeldTransactions # <<>>

\* C5: a transaction matching none of the transaction_filters appears in no
\* leaf and not in the uncategorized list and is counted nowhere; one
\* matching at least one filter, and every transaction when there are no
\* filters, appears once per occurrence in the input.
C5_PreFilter ==
    pc = "categorized" =>
        /\ \A t \in TransactionUniverse :
               Occurrences(HeldTransactions, t) + Occurrences(uncategorized, t)
                   = IF transaction_filters.some
                        /\ ~\E f \in Range(transaction_filters.v) : Matches(f, t)
                     THEN 0
                     ELSE Occurrences(transactions, t)
        /\ SeqSum([k \in 1..Len(categorized) |-> categorized[k].count])
               + Len(uncategorized) = Len(Considered)

\* C5 witness: filters are configured, one input transaction matches none of
\* them and is dropped, another matches only one of the two and is kept
C5_Witness ==
    /\ pc = "categorized"
    /\ transaction_filters.some
    /\ Len(Considered) = 1
    /\ Len(transactions) = 2
    /\ \E f \in Range(transaction_filters.v) : ~Matches(f, Considered[1])

----------------------------------------------------------------------------
(* Claims about the sort operations (checked under Spec) *)

\* a result tree with the order of siblings and of held transactions
\* forgotten: every child list becomes the bag of its elements
RECURSIVE Unordered(_)
Unordered(c) ==
    [category |-> c.category, count |-> c.count, total |-> c.total,
     absolute_total |-> c.absolute_total, kind |-> c.children.kind,
     children |-> IF c.children.kind = "transactions"
                  THEN BagOf(c.children.list)
                  ELSE BagOf([k \in 1..Len(c.children.list) |->
                                  Unordered(c.children.list[k])])]

UnorderedForest(list) == BagOf([k \in 1..Len(list) |-> Unordered(list[k])])

\* the result as categorize returned it, before any sort
Returned ==
    CategorizerCategorize(transaction_filters, categories, transactions)

\* C10: after any sequence of sort_subcategories and sort_transactions calls
\* every node has the name, count, total and absolute_total it had when
\* categorize returned, every leaf holds the same bag of transactions and
\* every internal node the same children: only orders may differ.
C10_SortIsReordering ==
    pc = "sorted" =>
        UnorderedForest(categorized) = UnorderedForest(Returned.categorized)

\* C10 witness: sorting moved both a category and a transaction inside a leaf
C10_Witness ==
    /\ pc = "sorted"
    /\ Len(categorized) = 2
    /\ categorized[1].category # categorized[2].category
    /\ categorized[1].category = Returned.categorized[2].category
    /\ categorized[2].category = Returned.categorized[1].category
    /\ categorized[2].children.kind = "transactions"
    /\ categorized[2].children.list # Returned.categorized[1].children.list

\* two sibling categories stand in the order the sort kind asks for
CategoryKeyInOrder(sort, c1, c2) ==
    CASE sort = "total_descending" -> c1.total >= c2.total
      [] sort = "total_ascending" -> c1.total <= c2.total
      [] sort = "absolute_total_descending" ->
             c1.absolute_total >= c2.absolute_total
      [] sort = "absolute_total_ascending" ->
             c1.absolute_total <= c2.absolute_total
      [] sort = "name_descending" ->
             StrCmp(c1.category, c2.category) # "Less"
      [] sort = "name_ascending" ->
             StrCmp(c1.category, c2.category) # "Greater"

\* every sibling list of the forest, at every depth, is in key order
RECURSIVE SiblingsOrdered(_, _)
SiblingsOrdered(list, sort) ==
    /\ \A k \in 1..(Len(list) - 1) :
           CategoryKeyInOrder(sort, list[k], list[k + 1])
    /\ \A k \in 1..Len(list) :
           list[k].children.kind = "subcategories" =>
               SiblingsOrdered(list[k].children.list, sort)

\* C11: a call of CategorizedList::sort_subcategories(sort) leaves the
\* sibling lists at every level (the top-level list and the Subcategories of
\* every internal node) ordered by the chosen key: total, absolute_total or
\* name, non-decreasing for Ascending and non-increasing for Descending.
C11_SubcategoriesOrdered ==
    [][(pc # "loaded" /\ pc' = "sorted") =>
           \A sort \in CategorySorts :
               \/ SiblingsOrdered(categorized', sort)
               \/ categorized' # SortCategorized(categorized, sort)]_vars

\* C11 witness: a sort put the children of an internal node in key order
\* where categorize had returned them out of order
C11_Witness ==
    /\ pc = "sorted"
    /\ Len(categorized) = 1
    /\ categorized[1].children.kind = "subcategories"
    /\ \E sort \in CategorySorts :
           /\ categorized = SortCategorized(Returned.categorized, sort)
           /\ SiblingsOrdered(categorized, sort)
           /\ ~SiblingsOrdered(Returned.categorized, sort)
           /\ categorized[1].children.list
                  # Returned.categorized[1].children.list

\* two neighbouring transactions stand in the order the sort kind asks for
TransactionKeyInOrder(sort, t1, t2) ==
    CASE sort = "time_descending" -> t1.time >= t2.time
      [] sort = "time_ascending" -> t1.time <= t2.time
      [] sort = "amount_descending" -> t1.amount >= t2.amount
      [] sort = "amount_ascending" -> t1.amount <= t2.amount
      [] sort = "absolute_amount_descending" ->
             Abs(t1.amount) >= Abs(t2.amount)
      [] sort = "absolute_amount_ascending" ->
             Abs(t1.amount) <= Abs(t2.amount)

\* every leaf of the forest, at any depth, holds its transactions in key order
LeavesOrdered(list, sort) ==
    LET leaves == LeavesOf(list)
    IN  \A j \in 1..Len(leaves) :
            LET held == leaves[j].children.list
            IN  \A k \in 1..(Len(held) - 1) :
                    TransactionKeyInOrder(sort, held[k], held[k + 1])

\* the names of a forest in sibling order, level by level
RECURSIVE CategoryOrder(_)
CategoryOrder(list) ==
    [k \in 1..Len(list) |->
        [category |-> list[k].category,
         subcategories |-> IF list[k].children.kind = "subcategories"
                           THEN CategoryOrder(list[k].children.list)
                           ELSE <<>>]]

\* C12: a call of CategorizedList::sort_transactions(sort) leaves the
\* transaction list of every leaf, at any depth, ordered by the chosen key
\* (time, amount or absolute amount; non-decreasing for Ascending,
\* non-increasing for Descending) and leaves the order of the categories as
\* it was.
C12_TransactionsOrdered ==
    [][(pc # "loaded" /\ pc' = "sorted") =>
           \A sort \in TransactionSorts :
               \/ /\ LeavesOrdered(categorized', sort)
                  /\ CategoryOrder(categorized') = CategoryOrder(categorized)
               \/ categorized' # SortTransactionsList(categorized, sort)]_vars

\* C12 witness: a sort reordered the transactions of a leaf below the top
\* level, and the categories stand as categorize returned them
C12_Witness ==
    /\ pc = "sorted"
    /\ Len(categorized) = 1
    /\ categorized[1].children.kind = "subcategories"
    /\ \E sort \in TransactionSorts :
           /\ categorized = SortTransactionsList(Returned.categorized, sort)
           /\ LeavesOrdered(categorized, sort)
           /\ ~LeavesOrdered(Returned.categorized, sort)

----------------------------------------------------------------------------
(* Claims about repeated calls of categorize (checked under Spec, where a   *)
(* call may follow earlier calls and sorts of the forest they returned)     *)

\* the forest the configuration and the input determine: every leaf holds,
\* in input order, the considered transactions whose first matching leaf it
\* is, and every internal node sums its children.  `before` is the number of
\* leaves that precede the list in depth-first order.
RECURSIVE ExpectedForest(_, _)
ExpectedForest(list, before) ==
    [k \in 1..Len(list) |->
        LET first == before + Len(LeavesOf(SubSeq(list, 1, k - 1)))
        IN  IF list[k].children.kind = "transaction_matchers"
            THEN LET held == SelectSeq(Considered,
                                       LAMBDA t : FirstLeaf(t) = first + 1)
                     amounts == [j \in 1..Len(held) |-> held[j].amount]
                     absolutes == [j \in 1..Len(held) |-> Abs(held[j].amount)]
                 IN  [category |-> list[k].category,
                      count |-> Len(held),
                      total |-> SeqSum(amounts),
                      absolute_total |-> SeqSum(absolutes),
                      children |-> Transactions(held)]
            ELSE LET subs == ExpectedForest(list[k].children.list, first)
                 IN  [category |-> list[k].category,
                      count |-> SeqSum([j \in 1..Len(subs) |-> subs[j].count]),
                      total |-> SeqSum([j \in 1..Len(subs) |-> subs[j].total]),
                      absolute_total |->
                          SeqSum([j \in 1..Len(subs) |->
                                      subs[j].absolute_total]),
                      children |-> Subcategories(subs)]]

ExpectedUncategorized == SelectSeq(Considered, LAMBDA t : FirstLeaf(t) = 0)

\* a call of categorize returns the forest and the uncategorized list that
\* the configuration and the input list alone determine
C13_ResultDetermined ==
    pc = "categorized" =>
        /\ categorized = ExpectedForest(categories, 0)
        /\ uncategorized = ExpectedUncategorized

\* C13: categorize is deterministic and leaves its inputs alone: every call,
\* the first one as well as one made after earlier calls and after sorts of
\* the forest they returned, yields the same forest and the same
\* uncategorized list for the same configuration and input list, and no step
\* changes the configuration or the input list.
C13_DeterministicAndReadOnly ==
    /\ []C13_ResultDetermined
    /\ [][/\ transaction_filters' = transaction_filters
          /\ categories' = categories
          /\ transactions' = transactions]_vars

\* C13 witness: a call returned a forest whose order a sort would change,
\* with a held and an uncategorized transaction
C13_Witness ==
    /\ pc = "categorized"
    /\ uncategorized # <<>>
    /\ HeldTransactions # <<>>
    /\ \E sort \in CategorySorts :
           SortCategorized(categorized, sort) # categorized

----------------------------------------------------------------------------
(* Claims about the edge cases and the shape of the result (checked under   *)
(* SpecCategorize)                                                          *)

\* C14 as stated: with an empty categories list categorize returns an empty
\* forest and every input transaction in the uncategorized list
C14_EmptyHierarchyAllInputs ==
    (pc = "categorized" /\ categories = <<>>) =>
        /\ categorized = <<>>
        /\ uncategorized = transactions

\* C14: with an empty categories list categorize returns an empty forest and
\* an uncategorized list holding, in input order, every input transaction
\* that passes the pre-filter (every input transaction when no filter is
\* configured).
C14_EmptyHierarchy ==
    (pc = "categorized" /\ categories = <<>>) =>
        /\ categorized = <<>>
        /\ uncategorized = Considered
        /\ (~transaction_filters.some => uncategorized = transactions)

\* C14 witness: an empty hierarchy with a pre-filter that removed one input
\* transaction and let another through
C14_Witness ==
    /\ pc = "categorized"
    /\ categories = <<>>
    /\ transaction_filters.some
    /\ uncategorized # <<>>
    /\ Len(uncategorized) < Len(transactions)

\* every node of the forest has count, total and absolute_total zero and
\* every leaf holds the empty list
AllEmpty(list) ==
    \A n \in ResultNodes(list) :
        /\ n.count = 0
        /\ n.total = 0
        /\ n.absolute_total = 0
        /\ n.children.kind = "transactions" => n.children.list = <<>>

\* C15: with an empty input list every category of the hierarchy is present
\* in the result with count, total and absolute_total zero, every leaf holds
\* the empty list and the uncategorized list is empty; and a leaf category
\* with no matchers has count zero and holds no transaction whatever the
\* input is.
C15_EmptyInputAndEmptyLeaf ==
    pc = "categorized" =>
        /\ transactions = <<>> =>
               /\ CategoryOrder(categorized) = CategoryOrder(categories)
               /\ AllEmpty(categorized)
               /\ uncategorized = <<>>
        /\ \A k \in 1..Len(LeavesOf(categories)) :
               LeavesOf(categories)[k].children.list = <<>> =>
                   /\ LeavesOf(categorized)[k].count = 0
                   /\ LeavesOf(categorized)[k].total = 0
                   /\ LeavesOf(categorized)[k].absolute_total = 0
                   /\ LeavesOf(categorized)[k].children.list = <<>>

\* C15 witness: a leaf without matchers stays empty, first in the hierarchy,
\* while a later leaf and the uncategorized list receive transactions
C15_Witness ==
    /\ pc = "categorized"
    /\ ~transaction_filters.some
    /\ Len(transactions) = MaxTxns
    /\ Len(LeavesOf(categories)) >= 2
    /\ LeavesOf(categories)[1].children.list = <<>>
    /\ LeavesOf(categorized)[1].count = 0
    /\ LeavesOf(categorized)[2].count > 0
    /\ uncategorized # <<>>

\* the other case of C15: a hierarchy of several categories run over the
\* empty input list
C15_WitnessEmptyInput ==
    /\ pc = "categorized"
    /\ transactions = <<>>
    /\ Cardinality(ResultNodes(categorized)) >= 2
    /\ AllEmpty(categorized)

\* the hierarchy as configured: names in sibling order, each category with
\* the kind of result node its children call for
RECURSIVE ConfiguredShape(_)
ConfiguredShape(list) ==
    [k \in 1..Len(list) |->
        IF list[k].children.kind = "transaction_matchers"
        THEN [category |-> list[k].category, kind |-> "transactions",
              subcategories |-> <<>>]
        ELSE [category |-> list[k].category, kind |-> "subcategories",
              subcategories |-> ConfiguredShape(list[k].children.list)]]

\* the result forest with aggregates and held transactions left out
RECURSIVE ResultShape(_)
ResultShape(list) ==
    [k \in 1..Len(list) |->
        [category |-> list[k].category, kind |-> list[k].children.kind,
         subcategories |-> IF list[k].children.kind = "subcategories"
                           THEN ResultShape(list[k].children.list)
                           ELSE <<>>]]

\* C16: the forest categorize returns (before any sort) mirrors the
\* configured hierarchy: one node per category, in the same sibling order and
\* with the same name at every level; a category with matchers becomes a node
\* holding Transactions, a category with subcategories a node holding
\* Subcategories, and no node holds both.
C16_ResultMirrorsHierarchy ==
    pc = "categorized" =>
        /\ ResultShape(categorized) = ConfiguredShape(categories)
        /\ \A n \in ResultNodes(categorized) :
               /\ n.children.kind \in {"transactions", "subcategories"}
               /\ DOMAIN n.children = {"kind", "list"}

\* C16 witness: an internal category with two differently named leaves below
\* it, both of which received a transaction
C16_Witness ==
    /\ pc = "categorized"
    /\ Len(categories) = 1
    /\ categories[1].children.kind = "subcategories"
    /\ Len(categories[1].children.list) = 2
    /\ categories[1].children.list[1].category
           # categories[1].children.list[2].category
    /\ categorized[1].children.list[1].count > 0
    /\ categorized[1].children.list[2].count > 0

----------------------------------------------------------------------------
(* The transaction parser (transaction.rs).  A CSV file is the sequence of  *)
(* records the csv crate splits it into, each record a sequence of fields,  *)
(* each field a tuple of bytes; a path is a tuple of bytes as well.         *)

\* Result<T, E>
Ok(v) == [ok |-> TRUE, v |-> v]
Err(e) == [ok |-> FALSE, e |-> e]

\* transaction::Error
ErrorBigDecimal == [kind |-> "BigDecimal"]
ErrorCsv == [kind |-> "Csv"]
ErrorDateparser == [kind |-> "Dateparser"]
ErrorIo == [kind |-> "Io"]
InvalidPathToFile(path) == [kind |-> "InvalidPathToFile", path |-> path]
MissingAmount(s) == [kind |-> "MissingAmount", content |-> s]
MissingAccount(s) == [kind |-> "MissingAccount", content |-> s]
MissingDescription(s) == [kind |-> "MissingDescription", content |-> s]
MissingTime(s) == [kind |-> "MissingTime", content |-> s]
NoMatchingCsvConfig(path) == [kind |-> "NoMatchingCsvConfig", path |-> path]
ParseFailed(path, source) ==
    [kind |-> "ParseFailed", path |-> path, source |-> source]

sAmount      == <<97, 109, 111, 117, 110, 116>>          \* "amount"
sAccount     == <<97, 99, 99, 111, 117, 110, 116>>       \* "account"
sDescription == <<100, 101, 115, 99, 114, 105, 112, 116, 105, 111, 110>>
sTime        == <<116, 105, 109, 101>>                   \* "time"
sAmt         == <<65, 109, 116>>                         \* "Amt"
sChecking    == <<99, 104, 101, 99, 107, 105, 110, 103>> \* "checking"
sFive        == <<53>>                                   \* "5"
sMinusTen    == <<45, 49, 48>>                           \* "-10"
sX           == <<120>>                                  \* "x"
sTime1       == <<48, 48, 48, 48, 48, 48, 48, 48, 48, 49>>  \* "0000000001"
sTime2       == <<48, 48, 48, 48, 48, 48, 48, 48, 48, 50>>  \* "0000000002"

IsDigits(s) == s # <<>> /\ \A i \in 1..Len(s) : s[i] \in 48..57

RECURSIVE DecimalValue(_)
DecimalValue(s) ==
    IF s = <<>> THEN 0
    ELSE 10 * DecimalValue(SubSeq(s, 1, Len(s) - 1)) + (s[Len(s)] - 48)

\* BigDecimal::from_str on integer literals: an optional sign, then digits;
\* any other text of the model's files is not a number
BigDecimalFromStr(s) ==
    LET signed == s # <<>> /\ s[1] \in {43, 45}
        digits == IF signed THEN Tail(s) ELSE s
    IN  IF IsDigits(digits)
        THEN Ok(IF signed /\ s[1] = 45 THEN -DecimalValue(digits)
                                       ELSE DecimalValue(digits))
        ELSE Err(ErrorBigDecimal)

\* dateparser::parse on the time formats of the model's files: ten digits
\* are a unix timestamp in seconds; any other text of the files is no date
DateparserParse(s) ==
    IF IsDigits(s) /\ Len(s) = 10 THEN Ok(DecimalValue(s))
                                  ELSE Err(ErrorDateparser)

\* csv::Reader::headers: the first record of the file, whether or not
\* has_headers is set; the empty record for an empty file
ReaderHeaders(content) == IF content = <<>> THEN <<>> ELSE content[1]

\* csv::Reader::records: the records after the header row, or all of them
\* when has_headers is off
ReaderRecords(has_header, content) ==
    IF has_header /\ content # <<>> THEN Tail(content) ELSE content

\* StringRecord::as_slice: the fields of the record, concatenated
AsSlice(record) == Flatten(record)

\* ColumnDeterminer and ConstantOrIndex
ColumnConstant(c) == [kind |-> "constant", constant |-> c]
ColumnHeader(h) == [kind |-> "header", header |-> h]
ColumnIndex(i) == [kind |-> "index", index |-> i]

\* a constant_or_index under which a header that is not found resolves to
\* the column after the last one
ConstantOrIndexDeferringMissing(determiner, headers) ==
    CASE determiner.kind = "constant" -> Ok(ColumnConstant(determiner.constant))
      [] determiner.kind = "header" ->
             LET found == {k \in 1..Len(headers) : headers[k] = determiner.header}
             IN  IF found = {} THEN Ok(ColumnIndex(Len(headers)))
                 ELSE Ok(ColumnIndex(
                          (CHOOSE k \in found : \A j \in found : k <= j) - 1))
      [] determiner.kind = "index" -> Ok(ColumnIndex(determiner.index))

\* ColumnDeterminer::constant_or_index(&self, headers) -> Result<ConstantOrIndex, String>
ConstantOrIndex(determiner, headers) ==
    CASE determiner.kind = "constant" -> Ok(ColumnConstant(determiner.constant))
      [] determiner.kind = "header" ->
             LET found == {k \in 1..Len(headers) : headers[k] = determiner.header}
             IN  IF found = {} THEN Err(AsSlice(headers))
                 ELSE Ok(ColumnIndex(
                          (CHOOSE k \in found : \A j \in found : k <= j) - 1))
      [] determiner.kind = "index" -> Ok(ColumnIndex(determiner.index))

\* ConstantOrIndex::value(&self, row) -> Result<&str, String>
Value(constant_or_index, row) ==
    IF constant_or_index.kind = "constant"
    THEN Ok(constant_or_index.constant)
    ELSE IF constant_or_index.index < Len(row)
         THEN Ok(row[constant_or_index.index + 1])
         ELSE Err(AsSlice(row))

TransactionParserCsv(filename_regex, has_header, amount_column, account_column, description_column, time_column) ==
    [filename_regex |-> filename_regex, has_header |-> has_header,
     amount_column |-> amount_column, account_column |-> account_column,
     description_column |-> description_column, time_column |-> time_column]

\* the body of the loop over reader.records() for one record
ConvertRecord(columns, record) ==
    LET amount == Value(columns.amount, record)
        account == Value(columns.account, record)
        description == Value(columns.description, record)
        time == Value(columns.time, record)
    IN  IF ~amount.ok THEN Err(MissingAmount(amount.e))
        ELSE IF ~account.ok THEN Err(MissingAccount(account.e))
        ELSE IF ~description.ok THEN Err(MissingDescription(description.e))
        ELSE IF ~time.ok THEN Err(MissingTime(time.e))
        ELSE LET parsed_amount == BigDecimalFromStr(amount.v)
                 parsed_time == DateparserParse(time.v)
             IN  IF ~parsed_amount.ok THEN parsed_amount
                 ELSE IF ~parsed_time.ok THEN parsed_time
                 ELSE Ok([amount |-> parsed_amount.v,
                          account |-> account.v,
                          description |-> description.v,
                          time |-> parsed_time.v])

\* the loop over reader.records(): a record whose number of fields differs
\* from the first record's is a csv::Error (the reader is not flexible); the
\* first failing record ends the call.  `records` counts the records taken
\* from the reader.
RECURSIVE ConvertRecords(_, _, _, _, _)
ConvertRecords(columns, width, records, k, list) ==
    IF k > Len(records) THEN [result |-> Ok(list), records |-> Len(records)]
    ELSE IF Len(records[k]) # width
         THEN [result |-> Err(ErrorCsv), records |-> k]
         ELSE LET r == ConvertRecord(columns, records[k])
              IN  IF ~r.ok THEN [result |-> r, records |-> k]
                  ELSE ConvertRecords(columns, width, records, k + 1,
                                      Append(list, r.v))

\* TransactionParserCsv::parse_csv(&self, reader) -> Result<Vec<Transaction>, Error>
CsvParseCsv(config, content) ==
    LET headers == ReaderHeaders(content)
        amount == ConstantOrIndex(config.amount_column, headers)
        account == ConstantOrIndex(config.account_column, headers)
        description == ConstantOrIndex(config.description_column, headers)
        time == ConstantOrIndex(config.time_column, headers)
        failed(e) == [result |-> Err(e), records |-> 0]
    IN  IF headers = <<>> THEN [result |-> Ok(<<>>), records |-> 0]
        ELSE IF ~amount.ok THEN failed(MissingAmount(amount.e))
        ELSE IF ~account.ok THEN failed(MissingAccount(account.e))
        ELSE IF ~description.ok THEN failed(MissingDescription(description.e))
        ELSE IF ~time.ok THEN failed(MissingTime(time.e))
        ELSE ConvertRecords([amount |-> amount.v, account |-> account.v,
                             description |-> description.v,
                             time |-> time.v],
                            Len(headers),
                            ReaderRecords(config.has_header, content),
                            1, <<>>)

----------------------------------------------------------------------------
(* TransactionParser::parse_csv_impl, parse_csv and parse_csvs.  Each       *)
(* operator returns the Result of the call together with `opened`, the      *)
(* paths handed to File::open during the call, in order.                    *)

\* Path::file_name of a path without a trailing separator: the bytes after
\* the last '/' (byte 47), none when they spell ".."
FileName(path) ==
    LET slashes == {i \in 1..Len(path) : path[i] = 47}
        last == IF slashes = {} THEN 0
                ELSE CHOOSE i \in slashes : \A j \in slashes : j <= i
        name == SubSeq(path, last + 1, Len(path))
    IN  IF name = <<>> \/ name = <<46, 46>> THEN None ELSE Some(name)

\* a parse_csv_impl that takes the last matching configuration
ParseCsvImplLastMatch(csvs, fs, path) ==
    LET filename == FileName(path)
        matching == {k \in 1..Len(csvs) :
                        IsMatch(csvs[k].filename_regex, filename.v)}
        csv_config == csvs[CHOOSE k \in matching : \A j \in matching : j <= k]
    IN  IF ~filename.some
        THEN [result |-> Err(InvalidPathToFile(path)), opened |-> <<>>]
        ELSE IF matching = {}
        THEN [result |-> Err(NoMatchingCsvConfig(path)), opened |-> <<>>]
        ELSE IF ~fs[path].some
        THEN [result |-> Err(ErrorIo), opened |-> <<path>>]
        ELSE [result |-> CsvParseCsv(csv_config, fs[path].v).result,
              opened |-> <<path>>]

\* TransactionParser::parse_csv_impl(&self, path)
ParseCsvImpl(csvs, fs, path) ==
    LET filename == FileName(path)
        matching == {k \in 1..Len(csvs) :
                        IsMatch(csvs[k].filename_regex, filename.v)}
        csv_config == csvs[CHOOSE k \in matching : \A j \in matching : k <= j]
    IN  IF ~filename.some
        THEN [result |-> Err(InvalidPathToFile(path)), opened |-> <<>>]
        ELSE IF matching = {}
        THEN [result |-> Err(NoMatchingCsvConfig(path)), opened |-> <<>>]
        ELSE IF ~fs[path].some
        THEN [result |-> Err(ErrorIo), opened |-> <<path>>]
        ELSE [result |-> CsvParseCsv(csv_config, fs[path].v).result,
              opened |-> <<path>>]

\* TransactionParser::parse_csv(&self, path): map_err wraps the error
ParserParseCsv(csvs, fs, path) ==
    LET r == ParseCsvImpl(csvs, fs, path)
    IN  IF r.result.ok THEN r
        ELSE [result |-> Err(ParseFailed(path, r.result.e)),
              opened |-> r.opened]

\* a parse_csvs that leaves a failing file out and goes on
RECURSIVE ParserParseCsvsSkippingFailures(_, _, _, _, _)
ParserParseCsvsSkippingFailures(csvs, fs, ps, k, acc) ==
    IF k > Len(ps) THEN [result |-> Ok(acc.transactions), opened |-> acc.opened]
    ELSE LET r == ParserParseCsv(csvs, fs, ps[k])
         IN  ParserParseCsvsSkippingFailures(csvs, fs, ps, k + 1,
                 [transactions |-> IF r.result.ok
                                   THEN acc.transactions \o r.result.v
                                   ELSE acc.transactions,
                  opened |-> acc.opened \o r.opened])

\* TransactionParser::parse_csvs(&self, paths): the `?` returns the first error
RECURSIVE ParserParseCsvs(_, _, _, _, _)
ParserParseCsvs(csvs, fs, ps, k, acc) ==
    IF k > Len(ps) THEN [result |-> Ok(acc.transactions), opened |-> acc.opened]
    ELSE LET r == ParserParseCsv(csvs, fs, ps[k])
         IN  IF ~r.result.ok
             THEN [result |-> r.result, opened |-> acc.opened \o r.opened]
             ELSE ParserParseCsvs(csvs, fs, ps, k + 1,
                      [transactions |-> acc.transactions \o r.result.v,
                       opened |-> acc.opened \o r.opened])

----------------------------------------------------------------------------
(* Inputs of the parser specifications *)

\* longest list of CSV layout configurations
MaxConfigs == 2
\* longest list of paths handed to parse_csvs
MaxPaths == 2
\* the column index no file of the model reaches
MaxIndex == 4

pA1  == <<97, 49>>               \* "a1"
pB1  == <<98, 49>>               \* "b1"
pBA2 == <<98, 47, 97, 50>>       \* "b/a2"
pUp  == <<46, 46>>               \* ".."
PathUniverse == {pA1, pB1, pBA2, pUp}

rA   == <<97, 46>>               \* the regex  a.
rB   == <<98, 46>>               \* the regex  b.
rAny == <<46>>                   \* the regex  .

\* the default layout, for files named a.
cByHeader ==
    TransactionParserCsv(rA, TRUE, ColumnHeader(sAmount),
                         ColumnHeader(sAccount), ColumnHeader(sDescription),
                         ColumnHeader(sTime))
\* a layout without header row for any file: columns by index, one account
cByIndex ==
    TransactionParserCsv(rAny, FALSE, ColumnIndex(0),
                         ColumnConstant(sChecking), ColumnIndex(2),
                         ColumnIndex(3))
\* a layout for files named b. whose amount column is headed "Amt"
cAmt ==
    TransactionParserCsv(rB, TRUE, ColumnHeader(sAmt),
                         ColumnHeader(sAccount), ColumnHeader(sDescription),
                         ColumnHeader(sTime))
ConfigUniverse == {cByHeader, cByIndex, cAmt}

rowHeader == <<sAmount, sAccount, sDescription, sTime>>
rowAmt    == <<sAmt, sAccount, sDescription, sTime>>
rowPay    == <<sFive, sChecking, sPay, sTime2>>
rowStore  == <<sMinusTen, sChecking, sStore1, sTime1>>
rowBadAmount == <<sX, sChecking, sPay, sTime1>>
rowBadTime   == <<sFive, sChecking, sPay, sX>>
rowShort     == <<sFive, sChecking>>

\* two file systems
FilesOne ==
    [p \in PathUniverse |->
        CASE p = pA1 -> Some(<<rowHeader, rowPay, rowStore>>)
          [] p = pB1 -> Some(<<rowAmt, rowPay, rowBadAmount>>)
          [] p = pBA2 -> Some(<<rowStore>>)
          [] OTHER -> None]
FilesTwo ==
    [p \in PathUniverse |->
        CASE p = pA1 -> None
          [] p = pB1 -> Some(<<rowAmt, rowStore>>)
          [] p = pBA2 -> Some(<<rowHeader, rowPay>>)
          [] OTHER -> None]
FileSystems == {FilesOne, FilesTwo}

----------------------------------------------------------------------------
(* The specification SpecParser: a TransactionParser, a file system and a   *)
(* list of paths; parse_csvs over the list, parse_csv on any path.          *)

CategorizerIdle ==
    /\ transaction_filters = None
    /\ categories = <<>>
    /\ transactions = <<>>
    /\ categorized = <<>>
    /\ uncategorized = <<>>
    /\ pc = "loaded"
    /\ matcher = NoConstraint
    /\ transaction = tPay
    /\ matched = None

InitParser ==
    /\ csv \in SeqsUpTo(ConfigUniverse, MaxConfigs)
    /\ files \in FileSystems
    /\ paths \in SeqsUpTo(PathUniverse, MaxPaths)
    /\ parsed = None
    /\ CategorizerIdle
    /\ LegacyIdle

\* parser.parse_csvs(paths)
ParseCsvs ==
    /\ LET r == ParserParseCsvs(csv, files, paths, 1,
                                [transactions |-> <<>>, opened |-> <<>>])
       IN  parsed' = Some([op |-> "parse_csvs", path |-> None, config |-> 0,
                           result |-> r.result, opened |-> r.opened,
                           records |-> 0])
    /\ UNCHANGED <<csv, files, paths, categorizerVars, legacyVars>>

\* parser.parse_csv(path)
ParseCsv ==
    /\ \E path \in PathUniverse :
           LET r == ParserParseCsv(csv, files, path)
           IN  parsed' = Some([op |-> "parse_csv", path |-> Some(path),
                               config |-> 0,
                               result |-> r.result, opened |-> r.opened,
                               records |-> 0])
    /\ UNCHANGED <<csv, files, paths, categorizerVars, legacyVars>>

NextParser == ParseCsvs \/ ParseCsv

SpecParser == InitParser /\ [][NextParser]_vars

----------------------------------------------------------------------------
(* The specification SpecCsv: TransactionParserCsv::parse_csv of one layout *)
(* configuration on the content of one file, over every combination of the  *)
(* ways to determine the four columns.                                      *)

sOther == <<111, 116, 104, 101, 114>>      \* "other", a header no file has

AmountColumns ==
    {ColumnHeader(sAmount), ColumnHeader(sAmt), ColumnIndex(0),
     ColumnIndex(MaxIndex), ColumnConstant(sFive)}
AccountColumns ==
    {ColumnHeader(sAccount), ColumnHeader(sOther), ColumnIndex(1),
     ColumnIndex(MaxIndex), ColumnConstant(sChecking)}
DescriptionColumns ==
    {ColumnHeader(sDescription), ColumnHeader(sOther), ColumnIndex(2),
     ColumnIndex(MaxIndex), ColumnConstant(sPay)}
TimeColumns ==
    {ColumnHeader(sTime), ColumnHeader(sOther), ColumnIndex(3),
     ColumnIndex(MaxIndex), ColumnConstant(sTime1)}

CsvLayouts ==
    {TransactionParserCsv(rAny, has_header, amount, account, description, time) :
        has_header \in BOOLEAN, amount \in AmountColumns,
        account \in AccountColumns, description \in DescriptionColumns,
        time \in TimeColumns}

\* the empty file, a header row alone, well-formed files with and without
\* header row, rows that do not convert, a row of another width
CsvContents ==
    {<<>>,
     <<rowHeader>>,
     <<rowHeader, rowPay, rowStore>>,
     <<rowAmt, rowPay>>,
     <<rowPay, rowStore>>,
     <<rowHeader, rowBadAmount, rowPay>>,
     <<rowHeader, rowPay, rowBadTime>>,
     <<rowHeader, rowShort>>}

InitCsv ==
    /\ \E config \in CsvLayouts : csv = <<config>>
    /\ \E content \in CsvContents : files = [p \in {pA1} |-> Some(content)]
    /\ paths = <<>>
    /\ parsed = None
    /\ CategorizerIdle
    /\ LegacyIdle

\* csv_config.parse_csv(file)
ParseReader ==
    /\ \E k \in 1..Len(csv), p \in DOMAIN files :
           /\ files[p].some
           /\ LET r == CsvParseCsv(csv[k], files[p].v)
              IN  parsed' = Some([op |-> "csv.parse_csv", path |-> Some(p),
                                  config |-> k,
                                  result |-> r.result, opened |-> <<>>,
                                  records |-> r.records])
    /\ UNCHANGED <<csv, files, paths, categorizerVars, legacyVars>>

NextCsv == ParseReader

SpecCsv == InitCsv /\ [][NextCsv]_vars

----------------------------------------------------------------------------
(* Claims about TransactionParser (checked under SpecParser) *)

\* map_err of parse_csv applied to a Result
Wrapped(path, result) ==
    IF result.ok THEN result ELSE Err(ParseFailed(path, result.e))

\* the configurations whose filename_regex matches the file name of the path
MatchingConfigs(path) ==
    {k \in 1..Len(csv) : IsMatch(csv[k].filename_regex, FileName(path).v)}

\* C17: parse_csv on a path uses the first configuration, in list order,
\* whose filename_regex matches the file name, also when later ones match
\* too; when none matches it fails with ParseFailed(path,
\* NoMatchingCsvConfig(path)) and the file is not opened.
C17_FirstMatchingConfig ==
    (parsed.some /\ parsed.v.op = "parse_csv"
     /\ FileName(parsed.v.path.v).some) =>
        LET path == parsed.v.path.v
            matching == MatchingConfigs(path)
            first == CHOOSE k \in matching : \A j \in matching : k <= j
        IN  /\ matching = {} =>
                   /\ parsed.v.result
                          = Err(ParseFailed(path, NoMatchingCsvConfig(path)))
                   /\ parsed.v.opened = <<>>
            /\ (matching # {} /\ files[path].some) =>
                   /\ parsed.v.result
                          = Wrapped(path,
                                    CsvParseCsv(csv[first], files[path].v).result)
                   /\ parsed.v.opened = <<path>>

\* C17 witness: two configurations match the file name and read the file
\* differently; the call returned what the first one reads
C17_Witness ==
    /\ parsed.some
    /\ parsed.v.op = "parse_csv"
    /\ Len(csv) = 2
    /\ FileName(parsed.v.path.v).some
    /\ MatchingConfigs(parsed.v.path.v) = {1, 2}
    /\ files[parsed.v.path.v].some
    /\ parsed.v.result.ok
    /\ parsed.v.result.v # <<>>
    /\ parsed.v.result
           = CsvParseCsv(csv[1], files[parsed.v.path.v].v).result
    /\ parsed.v.result
           # CsvParseCsv(csv[2], files[parsed.v.path.v].v).result

\* the other case of C17: no configuration matches the name of an existing
\* file, although one matches the directory part of the path
C17_WitnessNoMatch ==
    /\ parsed.some
    /\ parsed.v.op = "parse_csv"
    /\ parsed.v.path.v = pBA2
    /\ files[pBA2].some
    /\ csv = <<cAmt>>
    /\ parsed.v.result = Err(ParseFailed(pBA2, NoMatchingCsvConfig(pBA2)))
    /\ parsed.v.opened = <<>>

\* the result of parse_csv on each path of the list, taken alone
PerFile == [k \in 1..Len(paths) |-> ParserParseCsv(csv, files, paths[k])]

FailingFiles == {k \in 1..Len(paths) : ~PerFile[k].result.ok}

\* C18: parse_csvs returns, when every file parses, the per-file lists
\* concatenated in file-then-row order, nothing dropped or deduplicated;
\* when a file fails it returns the error of the first failing file, wrapped
\* with that file's path, no partial list, and it opens no file after the
\* failing one.
C18_ConcatenateOrFailFast ==
    (parsed.some /\ parsed.v.op = "parse_csvs") =>
        IF FailingFiles = {}
        THEN /\ parsed.v.result
                    = Ok(Flatten([k \in 1..Len(paths) |-> PerFile[k].result.v]))
             /\ parsed.v.opened = paths
        ELSE LET f == CHOOSE k \in FailingFiles : \A j \in FailingFiles : k <= j
             IN  /\ parsed.v.result = PerFile[f].result
                 /\ parsed.v.result.e.kind = "ParseFailed"
                 /\ parsed.v.result.e.path = paths[f]
                 /\ parsed.v.opened
                        = Flatten([k \in 1..f |-> PerFile[k].opened])
                 /\ Len(parsed.v.opened) <= f

\* C18 witness: the first file fails in a row, the second one would parse;
\* the call returned the first file's error and opened the first file only
C18_Witness ==
    /\ parsed.some
    /\ parsed.v.op = "parse_csvs"
    /\ Len(paths) = 2
    /\ ~PerFile[1].result.ok
    /\ PerFile[1].result.e.source = ErrorBigDecimal
    /\ PerFile[2].result.ok
    /\ PerFile[2].result.v # <<>>
    /\ paths[1] # paths[2]
    /\ ~parsed.v.result.ok
    /\ parsed.v.opened = <<paths[1]>>

\* the other case of C18: the same file listed twice parses into its rows
\* twice over
C18_WitnessConcatenation ==
    /\ parsed.some
    /\ parsed.v.op = "parse_csvs"
    /\ Len(paths) = 2
    /\ paths[1] = paths[2]
    /\ parsed.v.result.ok
    /\ Len(PerFile[1].result.v) = 2
    /\ parsed.v.result.v = PerFile[1].result.v \o PerFile[1].result.v

----------------------------------------------------------------------------
(* Claims about TransactionParserCsv::parse_csv (checked under SpecCsv) *)

\* the layout configuration and the file content of the last call
CallConfig == csv[parsed.v.config]
CallContent == files[parsed.v.path.v].v

\* the column is looked up by a header the first row of the file lacks
HeaderMissing(column) ==
    /\ column.kind = "header"
    /\ \A k \in 1..Len(CallContent[1]) : CallContent[1][k] # column.header

\* the call failed before it took a record, naming the header row
FailedAtHeaders(error) ==
    /\ parsed.v.result = Err(error)
    /\ error.content = AsSlice(CallContent[1])
    /\ parsed.v.records = 0

\* C19: when a column is determined by a header name that the (non-empty)
\* header row of the file lacks, parse_csv fails before converting any row
\* with the Missing error of that column (of the first such column, in the
\* order amount, account, description, time) carrying the content of the
\* header row.
C19_MissingHeader ==
    (parsed.some /\ parsed.v.op = "csv.parse_csv" /\ CallContent # <<>>) =>
        LET headers == AsSlice(CallContent[1])
            amount == HeaderMissing(CallConfig.amount_column)
            account == HeaderMissing(CallConfig.account_column)
            description == HeaderMissing(CallConfig.description_column)
            time == HeaderMissing(CallConfig.time_column)
        IN  /\ amount => FailedAtHeaders(MissingAmount(headers))
            /\ (~amount /\ account) => FailedAtHeaders(MissingAccount(headers))
            /\ (~amount /\ ~account /\ description) =>
                   FailedAtHeaders(MissingDescription(headers))
            /\ (~amount /\ ~account /\ ~description /\ time) =>
                   FailedAtHeaders(MissingTime(headers))

\* C19 witness: the amount column is headed "Amt" in the configuration, the
\* header row of the file lacks it, and the first data row would not convert
C19_Witness ==
    /\ parsed.some
    /\ parsed.v.op = "csv.parse_csv"
    /\ CallConfig.has_header
    /\ CallConfig.amount_column = ColumnHeader(sAmt)
    /\ CallConfig.time_column = ColumnHeader(sTime)
    /\ CallContent = <<rowHeader, rowBadAmount, rowPay>>
    /\ parsed.v.result
           = Err(MissingAmount(sAmount \o sAccount \o sDescription \o sTime))

\* the column is taken from a fixed index that the header row does not reach
IndexMissing(column) ==
    /\ column.kind = "index"
    /\ column.index >= Len(CallContent[1])

\* every record of the file has the width of the first one
WellFormed(content) ==
    \A k \in 1..Len(content) : Len(content[k]) = Len(content[1])

\* C20: when a column is determined by a fixed index and the file has no
\* column at that index, parse_csv fails with a Missing error for every such
\* file, a file with a header row and no data rows included, and never
\* returns a transaction list.
C20_MissingIndexFatal ==
    (/\ parsed.some
     /\ parsed.v.op = "csv.parse_csv"
     /\ CallContent # <<>>
     /\ WellFormed(CallContent)
     /\ \/ IndexMissing(CallConfig.amount_column)
        \/ IndexMissing(CallConfig.account_column)
        \/ IndexMissing(CallConfig.description_column)
        \/ IndexMissing(CallConfig.time_column)) =>
        /\ ~parsed.v.result.ok
        /\ parsed.v.result.e.kind \in {"MissingAmount", "MissingAccount",
                                       "MissingDescription", "MissingTime"}

----------------------------------------------------------------------------
(* The matcher-list categorizer of categorizer.rs: a list of matcher rules, *)
(* each naming the category it assigns, and a hierarchy of category names.  *)

\* categorizer.rs TransactionMatcher: a category name and the six constraints
MatcherRule(category, m) ==
    [category |-> category, min |-> m.min, max |-> m.max,
     account |-> m.account, description |-> m.description,
     begin |-> m.begin, end |-> m.end]

\* categorizer.rs Category: a name and its subcategories
HierarchyCategory(category, subcategories) ==
    [category |-> category, subcategories |-> subcategories]

\* categorizer.rs Error
DuplicateCategoriesInTransactionMatchers(names) ==
    [kind |-> "DuplicateCategoriesInTransactionMatchers", names |-> names]
DuplicateCategoriesInCategoryHierarchy(names) ==
    [kind |-> "DuplicateCategoriesInCategoryHierarchy", names |-> names]
MissingCategoriesInCategoryHierarchy(names) ==
    [kind |-> "MissingCategoriesInCategoryHierarchy", names |-> names]

\* util::vec_to_hashsets: an item already in the unique set goes to the
\* duplicate set, any other item to the unique set
RECURSIVE VecToHashsets(_, _, _)
VecToHashsets(vec, unique_set, duplicate_set) ==
    IF vec = <<>> THEN [unique |-> unique_set, duplicate |-> duplicate_set]
    ELSE IF Head(vec) \in unique_set
         THEN VecToHashsets(Tail(vec), unique_set,
                            duplicate_set \cup {Head(vec)})
         ELSE VecToHashsets(Tail(vec), unique_set \cup {Head(vec)},
                            duplicate_set)

\* Category::categories: the name of the category, then those of its
\* subcategories, depth first
RECURSIVE Categories(_)
Categories(cat) ==
    <<cat.category>>
        \o Flatten([k \in 1..Len(cat.subcategories) |->
                        Categories(cat.subcategories[k])])

\* a validate_categories that looks at the hierarchy before the matchers
ValidateCategoriesHierarchyFirst(rules, forest) ==
    LET m == VecToHashsets([k \in 1..Len(rules) |-> rules[k].category],
                           {}, {})
        h == VecToHashsets(Flatten([k \in 1..Len(forest) |->
                                        Categories(forest[k])]), {}, {})
        hierarchy_missing == m.unique \ h.unique
    IN  IF h.duplicate # {}
        THEN Err(DuplicateCategoriesInCategoryHierarchy(h.duplicate))
        ELSE IF m.duplicate # {}
        THEN Err(DuplicateCategoriesInTransactionMatchers(m.duplicate))
        ELSE IF hierarchy_missing # {}
        THEN Err(MissingCategoriesInCategoryHierarchy(hierarchy_missing))
        ELSE Ok(<<>>)

\* Categorizer::validate_categories(&self) -> Result<(), Error>
ValidateCategories(rules, forest) ==
    LET m == VecToHashsets([k \in 1..Len(rules) |-> rules[k].category],
                           {}, {})
        h == VecToHashsets(Flatten([k \in 1..Len(forest) |->
                                        Categories(forest[k])]), {}, {})
        hierarchy_missing == m.unique \ h.unique
    IN  IF m.duplicate # {}
        THEN Err(DuplicateCategoriesInTransactionMatchers(m.duplicate))
        ELSE IF h.duplicate # {}
        THEN Err(DuplicateCategoriesInCategoryHierarchy(h.duplicate))
        ELSE IF hierarchy_missing # {}
        THEN Err(MissingCategoriesInCategoryHierarchy(hierarchy_missing))
        ELSE Ok(<<>>)

----------------------------------------------------------------------------
(* The specification SpecValidate: validate_categories, as from_reader runs *)
(* it, over every list of matcher categories and every hierarchy of names.  *)

\* longest list of matcher rules
MaxMatchers == 2

CategoryNames == {nA, nAB, nB}

\* every tree / forest of exactly n categories named from the given set
RECURSIVE HierarchyTreesOfSize(_, _)
RECURSIVE HierarchyForestsOfSize(_, _)
HierarchyTreesOfSize(names, n) ==
    {HierarchyCategory(name, f) :
         name \in names, f \in HierarchyForestsOfSize(names, n - 1)}

HierarchyForestsOfSize(names, n) ==
    IF n = 0 THEN {<<>>}
    ELSE UNION {{<<t>> \o f : t \in HierarchyTreesOfSize(names, k),
                              f \in HierarchyForestsOfSize(names, n - k)} :
                    k \in 1..n}

HierarchyForests(names) ==
    UNION {HierarchyForestsOfSize(names, n) : n \in 0..MaxNodes}

InitValidate ==
    /\ matcher_rules \in
           {[k \in 1..Len(q) |-> MatcherRule(q[k], NoConstraint)] :
                q \in SeqsUpTo(CategoryNames, MaxMatchers)}
    /\ hierarchy \in HierarchyForests(CategoryNames)
    /\ validated = None
    /\ categorized_hierarchy = None
    /\ CategorizerIdle
    /\ ParserIdle

\* categorizer.validate_categories()?, the last step of Categorizer::from_reader
Validate ==
    /\ validated' = Some(ValidateCategories(matcher_rules, hierarchy))
    /\ UNCHANGED <<matcher_rules, hierarchy, categorized_hierarchy,
                   categorizerVars, parserVars>>

NextValidate == Validate

SpecValidate == InitValidate /\ [][NextValidate]_vars

----------------------------------------------------------------------------
(* Claims about validate_categories (checked under SpecValidate) *)

\* how often the name occurs in the hierarchy forest, at any depth
RECURSIVE NameCount(_, _)
NameCount(forest, name) ==
    SeqSum([k \in 1..Len(forest) |->
                (IF forest[k].category = name THEN 1 ELSE 0)
                    + NameCount(forest[k].subcategories, name)])

MatcherCategories == [k \in 1..Len(matcher_rules) |-> matcher_rules[k].category]

\* names used by two matchers; names occurring twice in the hierarchy;
\* matcher categories absent from the hierarchy
TwiceInMatchers ==
    {n \in Range(MatcherCategories) : Occurrences(MatcherCategories, n) >= 2}
TwiceInHierarchy == {n \in CategoryNames : NameCount(hierarchy, n) >= 2}
AbsentFromHierarchy ==
    {n \in Range(MatcherCategories) : NameCount(hierarchy, n) = 0}

\* C21: validate_categories returns Ok iff no category name is used by two
\* matchers, none occurs twice in the hierarchy forest and every matcher
\* category occurs in the hierarchy; otherwise it returns the first
\* applicable error in the order DuplicateCategoriesInTransactionMatchers,
\* DuplicateCategoriesInCategoryHierarchy,
\* MissingCategoriesInCategoryHierarchy, carrying exactly the set of
\* offending names.
C21_ValidateCategories ==
    validated.some =>
        validated.v =
            IF TwiceInMatchers # {}
            THEN Err(DuplicateCategoriesInTransactionMatchers(TwiceInMatchers))
            ELSE IF TwiceInHierarchy # {}
            THEN Err(DuplicateCategoriesInCategoryHierarchy(TwiceInHierarchy))
            ELSE IF AbsentFromHierarchy # {}
            THEN Err(MissingCategoriesInCategoryHierarchy(AbsentFromHierarchy))
            ELSE Ok(<<>>)

\* C21 witness: one name is used by two matchers, another occurs twice in
\* the hierarchy, and the call reported the matchers' duplicate
C21_Witness ==
    /\ validated.some
    /\ TwiceInMatchers = {nA}
    /\ TwiceInHierarchy = {nB}
    /\ AbsentFromHierarchy = {nA}
    /\ validated.v = Err(DuplicateCategoriesInTransactionMatchers({nA}))

\* the accepting case of C21: two matchers, both categories in a hierarchy
\* of three distinct names
C21_WitnessAccepted ==
    /\ validated.some
    /\ Len(matcher_rules) = 2
    /\ Cardinality(Range(Categories(HierarchyCategory(nA, hierarchy)))) = 3
    /\ NameCount(hierarchy, nA) = 1
    /\ validated.v = Ok(<<>>)

----------------------------------------------------------------------------
(* Categorizer::categorize and Category::categorize of categorizer.rs *)

\* categorizer.rs TransactionMatcher::matches, comparison by comparison
RuleMatches(m, t) ==
    LET min == IF m.min.some THEN m.min.v <= t.amount ELSE TRUE
        max == IF m.max.some THEN m.max.v >= t.amount ELSE TRUE
        account == IF m.account.some THEN m.account.v = t.account ELSE TRUE
        description == m.description = <<>>
                       \/ \E k \in 1..Len(m.description) :
                              IsMatch(m.description[k], t.description)
        begin == IF m.begin.some THEN m.begin.v >= t.time ELSE TRUE
        end == IF m.end.some THEN m.end.v <= t.time ELSE TRUE
    IN  min /\ max /\ account /\ description /\ begin /\ end

\* the flat_map of Categorizer::categorize: each transaction paired with the
\* category of the first matcher that matches it, left out when none does
RECURSIVE AssignCategories(_, _)
AssignCategories(rules, txns) ==
    IF txns = <<>> THEN <<>>
    ELSE LET t == Head(txns)
             found == {k \in 1..Len(rules) : RuleMatches(rules[k], t)}
             rest == AssignCategories(rules, Tail(txns))
         IN  IF found = {} THEN rest
             ELSE <<[category |->
                         rules[CHOOSE k \in found : \A j \in found : k <= j]
                             .category,
                     transaction |-> t]>> \o rest

\* categorizer.rs Category::categorize: the subcategories first, each adding
\* its count, total and absolute_total to this category's, then the
\* transactions assigned to this category's own name
RECURSIVE HierarchyCategorize(_, _)
HierarchyCategorize(cat, assigned) ==
    LET subcategories == [k \in 1..Len(cat.subcategories) |->
                              HierarchyCategorize(cat.subcategories[k],
                                                  assigned)]
        own == SelectSeq(assigned, LAMBDA a : a.category = cat.category)
        held == [k \in 1..Len(own) |-> own[k].transaction]
    IN  [category |-> cat.category,
         count |-> SeqSum([k \in 1..Len(subcategories) |->
                               subcategories[k].count]) + Len(held),
         total |-> SeqSum([k \in 1..Len(subcategories) |->
                               subcategories[k].total])
                   + SeqSum([k \in 1..Len(held) |-> held[k].amount]),
         absolute_total |->
             SeqSum([k \in 1..Len(subcategories) |->
                         subcategories[k].absolute_total])
             + SeqSum([k \in 1..Len(held) |-> Abs(held[k].amount)]),
         subcategories |-> subcategories,
         transactions |-> held]

\* categorizer.rs Categorizer::categorize(&self, transactions) -> CategorizedHierarchy
MatcherListCategorize(rules, forest, txns) ==
    LET categorized_transactions == AssignCategories(rules, txns)
    IN  [k \in 1..Len(forest) |->
            HierarchyCategorize(forest[k], categorized_transactions)]

----------------------------------------------------------------------------
(* The specification SpecHierarchy: a matcher-list configuration is loaded  *)
(* (from_reader validates it) and, when it was accepted, categorize is      *)
(* called on a transaction list.                                            *)

RuleUniverse ==
    {MatcherRule(nA, mCredit), MatcherRule(nAB, mPay), MatcherRule(nB, mMin0)}

\* lists of rules with pairwise different categories
RuleLists ==
    {q \in SeqsUpTo(RuleUniverse, MaxMatchers) :
         \A i, j \in 1..Len(q) : q[i] = q[j] => i = j}

\* hierarchies in which no name occurs twice
DistinctHierarchies ==
    {f \in HierarchyForests(CategoryNames) :
         LET names == Flatten([k \in 1..Len(f) |-> Categories(f[k])])
         IN  \A i, j \in 1..Len(names) : names[i] = names[j] => i = j}

InitHierarchy ==
    /\ matcher_rules \in RuleLists
    /\ hierarchy \in DistinctHierarchies
    /\ validated = None
    /\ categorized_hierarchy = None
    /\ transaction_filters = None
    /\ categories = <<>>
    /\ transactions \in TransactionLists
    /\ categorized = <<>>
    /\ uncategorized = <<>>
    /\ pc = "loaded"
    /\ matcher = NoConstraint
    /\ transaction = tPay
    /\ matched = None
    /\ ParserIdle

\* categorizer.categorize(&transactions) on a Categorizer that from_reader
\* returned
CategorizeHierarchy ==
    /\ validated = Some(Ok(<<>>))
    /\ categorized_hierarchy'
           = Some(MatcherListCategorize(matcher_rules, hierarchy, transactions))
    /\ UNCHANGED <<matcher_rules, hierarchy, validated, categorizerVars,
                   parserVars>>

NextHierarchy == Validate \/ CategorizeHierarchy

SpecHierarchy == InitHierarchy /\ [][NextHierarchy]_vars

----------------------------------------------------------------------------
(* Claims about the matcher-list categorize (checked under SpecHierarchy) *)

\* every node of a categorized hierarchy, at any depth
RECURSIVE HierarchyNodes(_)
HierarchyNodes(list) ==
    UNION {{list[k]} \cup HierarchyNodes(list[k].subcategories) :
               k \in 1..Len(list)}

\* C22: for every configuration validate_categories accepts and every
\* transaction list, each node of the result that has subcategories has
\* count, total and absolute_total equal to the sums over its subcategories
\* and holds no transactions of its own.
C22_InternalNodesHoldSums ==
    categorized_hierarchy.some =>
        \A n \in HierarchyNodes(categorized_hierarchy.v) :
            n.subcategories # <<>> =>
                /\ n.count = SeqSum([k \in 1..Len(n.subcategories) |->
                                         n.subcategories[k].count])
                /\ n.total = SeqSum([k \in 1..Len(n.subcategories) |->
                                         n.subcategories[k].total])
                /\ n.absolute_total
                       = SeqSum([k \in 1..Len(n.subcategories) |->
                                     n.subcategories[k].absolute_total])
                /\ n.transactions = <<>>

----------------------------------------------------------------------------
(* Conservation and position tracking in Categorizer::categorize (checked   *)
(* under SpecCategorize)                                                    *)

\* C23: conservation.  The counts of the top-level nodes plus the length of
\* the uncategorized list make the number of input transactions that passed
\* the pre-filter; the top-level totals plus the uncategorized amounts make
\* the sum of the amounts of those transactions; and at every node
\* absolute_total is at least the absolute value of total.
C23_Conservation ==
    pc = "categorized" =>
        /\ SeqSum([k \in 1..Len(categorized) |-> categorized[k].count])
               + Len(uncategorized)
           = Len(Considered)
        /\ SeqSum([k \in 1..Len(categorized) |-> categorized[k].total])
               + SeqSum([k \in 1..Len(uncategorized) |->
                             uncategorized[k].amount])
           = SeqSum([k \in 1..Len(Considered) |-> Considered[k].amount])
        /\ \A n \in ResultNodes(categorized) :
               n.absolute_total >= Abs(n.total)

\* C23 witness: two top-level categories match the same input transaction,
\* another transaction is left uncategorized, and the amounts are of both
\* signs
C23_Witness ==
    /\ pc = "categorized"
    /\ Len(categorized) >= 2
    /\ \E t \in Range(Considered) :
           /\ FirstLeaf(t) # 0
           /\ \E j, k \in 1..Len(categories) :
                  /\ j # k
                  /\ \E a \in Range(LeavesOf(<<categories[j]>>)) :
                         LeafMatches(a, t)
                  /\ \E b \in Range(LeavesOf(<<categories[k]>>)) :
                         LeafMatches(b, t)
    /\ uncategorized # <<>>
    /\ \E i, j \in 1..Len(Considered) :
           Considered[i].amount < 0 /\ Considered[j].amount > 0

\* C23 witness for the strict inequality: a node that sums amounts of both
\* signs, so that its absolute_total exceeds the absolute value of its total
C23_WitnessMixedSigns ==
    /\ pc = "categorized"
    /\ \E n \in ResultNodes(categorized) :
           n.count = 2 /\ n.absolute_total > Abs(n.total)

\* q can be obtained from s by deleting elements (the elements of q occur in
\* s in the same relative order)
RECURSIVE IsSubsequence(_, _)
IsSubsequence(q, s) ==
    IF q = <<>> THEN TRUE
    ELSE IF s = <<>> THEN FALSE
    ELSE IF Head(q) = Head(s) THEN IsSubsequence(Tail(q), Tail(s))
    ELSE IsSubsequence(q, Tail(s))

\* C24: claimed transactions are tracked by position, not by value.  All the
\* occurrences of a transaction that passed the pre-filter end up together:
\* either every one of them is held (and counted) by one and the same leaf,
\* or every one of them is in the uncategorized list; none is merged with
\* its equal.  Each leaf's list and the uncategorized list keep the relative
\* input order.
C24_TrackedByPosition ==
    pc = "categorized" =>
        LET leaves == LeavesOf(categorized) IN
        /\ \A t \in Range(Considered) :
               LET n == Occurrences(Considered, t) IN
               \/ /\ Occurrences(uncategorized, t) = n
                  /\ Occurrences(HeldTransactions, t) = 0
               \/ /\ Occurrences(uncategorized, t) = 0
                  /\ Occurrences(HeldTransactions, t) = n
                  /\ \E k \in 1..Len(leaves) :
                         /\ Occurrences(leaves[k].children.list, t) = n
                         /\ leaves[k].count >= n
        /\ \A k \in 1..Len(leaves) :
               IsSubsequence(leaves[k].children.list, Considered)
        /\ IsSubsequence(uncategorized, Considered)

\* C24 witness: the input holds the same transaction twice and a leaf claimed
\* both occurrences
C24_Witness ==
    /\ pc = "categorized"
    /\ Len(transactions) = 2
    /\ transactions[1] = transactions[2]
    /\ \E c \in ResultNodes(categorized) :
           /\ c.children.kind = "transactions"
           /\ c.children.list = transactions
           /\ c.count = 2

\* C24 witness: the same transaction twice, both occurrences uncategorized
C24_WitnessUncategorized ==
    /\ pc = "categorized"
    /\ categories # <<>>
    /\ Len(uncategorized) = 2
    /\ uncategorized[1] = uncategorized[2]

\* C24 witness for the order: a leaf holds two different transactions, and
\* they are not in the order any of the sorts would give by amount
C24_WitnessInputOrder ==
    /\ pc = "categorized"
    /\ \E c \in ResultNodes(categorized) :
           /\ c.children.kind = "transactions"
           /\ Len(c.children.list) = 2
           /\ c.children.list[1].amount > c.children.list[2].amount

----------------------------------------------------------------------------
(* The two sorts together (checked under Spec) *)

\* C25: the two sort operations are independent.  On every result tree
\* categorize returns, for every CategorySort and every TransactionSort,
\* sort_subcategories followed by sort_transactions gives the tree that
\* sort_transactions followed by sort_subcategories gives; and on every tree,
\* sorted before or not, sorting a second time with the same kind changes
\* nothing, for either sort.
C25_SortsIndependent ==
    LET bySubcategories ==
            [cs \in CategorySorts |-> SortCategorized(categorized, cs)]
        byTransactions ==
            [ts \in TransactionSorts |-> SortTransactionsList(categorized, ts)]
    IN  /\ pc = "categorized" =>
               \A cs \in CategorySorts : \A ts \in TransactionSorts :
                   SortTransactionsList(bySubcategories[cs], ts)
                       = SortCategorized(byTransactions[ts], cs)
        /\ pc # "loaded" =>
               /\ \A cs \in CategorySorts :
                      SortCategorized(bySubcategories[cs], cs)
                          = bySubcategories[cs]
               /\ \A ts \in TransactionSorts :
                      SortTransactionsList(byTransactions[ts], ts)
                          = byTransactions[ts]

\* C25 witness: a result tree that a sort of the subcategories and a sort of
\* the transactions both change
C25_Witness ==
    /\ pc = "categorized"
    /\ \E cs \in CategorySorts : \E ts \in TransactionSorts :
           /\ SortCategorized(categorized, cs) # categorized
           /\ SortTransactionsList(categorized, ts) # categorized
           /\ SortTransactionsList(SortCategorized(categorized, cs), ts)
                  \notin {categorized, SortCategorized(categorized, cs),
                          SortTransactionsList(categorized, ts)}

\* C25 witness for equal keys, on a tree that was sorted before: two
\* different siblings of equal total, or a leaf holding two different
\* transactions of equal time
C25_WitnessEqualKeys ==
    /\ pc = "sorted"
    /\ \/ \E i, j \in 1..Len(categorized) :
              /\ i < j
              /\ categorized[i] # categorized[j]
              /\ categorized[i].total = categorized[j].total
       \/ \E n \in ResultNodes(categorized) :
              /\ n.children.kind = "transactions"
              /\ Len(n.children.list) = 2
              /\ n.children.list[1] # n.children.list[2]
              /\ n.children.list[1].time = n.children.list[2].time

====
